---- MODULE Spec2Model ----
(***************************************************************************)
(* Model of the hierarchical query overlay (overlay_core): the query       *)
(* orchestrator of every process, its admission controller, its result     *)
(* cache and the chunk pulls of clients and of forwarding processes.       *)
(***************************************************************************)
EXTENDS Integers, Sequences, FiniteSets, TLC

\* ------------------------------------------------------------------ bounds
MaxQueries == 2      \* client queries submitted in one behaviour (overlay)
DefaultLimit == 3    \* default_limit of the orchestrator, scaled down
ChunkSize == 2       \* chunk_size every process is started with
MaxActive == 2       \* max_active of the admission controller
PerTeamLimit == 1    \* per_team_limit of the admission controller
MaxFailures == 1     \* outbound RPCs that fail in one behaviour
MaxConcurrent == 3   \* Query RPCs running at once on one process (SpecAdmit)
MaxAdmitQueries == 4 \* client queries in one behaviour of SpecAdmit
MaxRecords == 4      \* rows of a cached result (SpecChunk)
MaxChunkSize == 3    \* chunk sizes of a cached result (SpecChunk)
ResultTtl == 2       \* result_ttl of the cache, in clock ticks
MaxNeighbors == 4    \* selected neighbors of one allocation (SpecAlloc)
MaxAllocLimit == 10  \* limits of one allocation (SpecAlloc)
MaxRemaining == 2    \* `remaining` handed to a forwarding strategy (SpecForward)
MaxFairActive == 10  \* max_active handed to a fairness strategy (SpecFair)
MaxFairTeamLimit == 5 \* per_team_limit handed to a fairness strategy (SpecFair)
MaxTeamActive == 5   \* active count of one team (SpecFair)
MaxRotateQueries == 3 \* concurrent queries at one forwarder (SpecRotate)
MaxFanout == 2       \* selected neighbors of the forwarder (SpecRepeat)
MaxNeighborRows == 3 \* matching rows one neighbor can return (SpecRepeat)
MaxRepeatLimit == 3  \* effective limit of the repeated query (SpecRepeat)

NoTeam == "none"
NoLimit == <<>>       \* a filter without a limit key; <<n>> is limit n
Client == 0
NoUid == 0

\* ---------------------------------------------------------------- topology
\* The static configuration: one leader, two team leaders, their workers.
\* The neighbor lists contain back references (cycles), a worker of the
\* other team (D is listed by B) and the process itself (B is listed by B).
Config ==
  [ A |-> [id |-> "A", role |-> "leader",      team |-> "green", neighbors |-> <<"B", "E">>],
    B |-> [id |-> "B", role |-> "team_leader", team |-> "green", neighbors |-> <<"A", "C", "D", "B">>],
    C |-> [id |-> "C", role |-> "worker",      team |-> "green", neighbors |-> <<"B">>],
    E |-> [id |-> "E", role |-> "team_leader", team |-> "pink",  neighbors |-> <<"A", "D">>],
    D |-> [id |-> "D", role |-> "worker",      team |-> "pink",  neighbors |-> <<"E", "B">>] ]

Procs == DOMAIN Config

\* OverlayConfig.neighbors_of: the configured neighbors that exist, in order.
neighbors_of(p) ==
  LET known(n) == n \in Procs IN SelectSeq(Config[p].neighbors, known)

\* The rows of the local slice of each process that match the filter of the
\* queries, in load order.  The leader is a pure coordinator (no data store).
Data ==
  [ A |-> <<>>, B |-> <<11>>, C |-> <<21, 22>>, E |-> <<31, 32>>, D |-> <<41>> ]

HasDataStore(p) == p # "A"

Min(a, b) == IF a < b THEN a ELSE b
Max(a, b) == IF a > b THEN a ELSE b

InSeq(x, s) == \E i \in 1..Len(s) : s[i] = x

\* Python slice s[:n] for n >= 0.
Take(s, n) == SubSeq(s, 1, Min(n, Len(s)))

\* str.lower() on the team names that occur.
Lower(t) == IF t = "Green" THEN "green" ELSE IF t = "Pink" THEN "pink" ELSE t

TeamKeys == {"green", "pink"}

\* ------------------------------------------------------- chunked results
\* (mutant: floor instead of ceiling)
MutTotalChunksFloor(records, chunk_size) ==
  IF records # <<>> THEN Len(records) \div chunk_size ELSE 0

\* QueryResult / ChunkedResult: total_chunks and get_chunk.
TotalChunks(records, chunk_size) ==
  IF records # <<>> THEN (Len(records) + chunk_size - 1) \div chunk_size ELSE 0

NoChunk == [none |-> TRUE]

ResultGetChunk(result, chunk_index) ==
  LET total == TotalChunks(result.records, result.chunk_size) IN
  IF chunk_index < 0 \/ chunk_index >= total THEN NoChunk
  ELSE LET start_idx == chunk_index * result.chunk_size
           end_idx == Min(start_idx + result.chunk_size, Len(result.records))
       IN [ data |-> SubSeq(result.records, start_idx + 1, end_idx),
            chunk_index |-> chunk_index,
            total_chunks |-> total,
            is_last |-> (chunk_index = total - 1) ]

\* json.dumps of a list of rows and QueryOrchestrator._safe_json_loads.
JsonDumps(rows) == <<"list", rows>>
SafeJsonLoads(payload) == IF payload[1] = "list" THEN payload[2] ELSE <<>>

\* FixedChunking.compute_chunk_size
FixedChunkSize(total_records) == ChunkSize

\* -------------------------------------------------------------- fairness
SumTeams(active_per_team) ==
  LET RECURSIVE Sum(_)
      Sum(S) == IF S = {} THEN 0
                ELSE LET t == CHOOSE x \in S : TRUE
                     IN active_per_team[t] + Sum(S \ {t})
  IN Sum(DOMAIN active_per_team)

\* (mutant: the per-team check is missing)
MutStrictNoTeamCheck(team, active_per_team, max_active, per_team_limit) ==
  SumTeams(active_per_team) < max_active

\* StrictPerTeamFairness.should_admit
StrictShouldAdmit(team, active_per_team, max_active, per_team_limit) ==
  IF SumTeams(active_per_team) >= max_active THEN FALSE
  ELSE IF team # NoTeam /\ active_per_team[Lower(team)] >= per_team_limit THEN FALSE
  ELSE TRUE

\* (mutant: the total check is missing)
MutWeightedNoTotalCheck(team, active_per_team, max_active, per_team_limit) ==
  IF team # NoTeam
     /\ LET team_active == active_per_team[Lower(team)]
            other_teams_total == SumTeams(active_per_team) - team_active
        IN team_active >= per_team_limit
           /\ 10 * other_teams_total > 8 * per_team_limit
  THEN FALSE
  ELSE TRUE

\* WeightedFairness.should_admit (x > limit * 0.8 as 10x > 8 limit)
WeightedShouldAdmit(team, active_per_team, max_active, per_team_limit) ==
  IF SumTeams(active_per_team) >= max_active THEN FALSE
  ELSE IF team # NoTeam
          /\ LET team_active == active_per_team[Lower(team)]
                 other_teams_total == SumTeams(active_per_team) - team_active
             IN team_active >= per_team_limit
                /\ 10 * other_teams_total > 8 * per_team_limit
       THEN FALSE
  ELSE TRUE

\* HybridFairness.should_admit (total / max >= 0.8 as 10 total >= 8 max)
\* (mutant: the load is never high)
MutHybridAlwaysWeighted(team, active_per_team, max_active, per_team_limit) ==
  WeightedShouldAdmit(team, active_per_team, max_active, per_team_limit)

HybridShouldAdmit(team, active_per_team, max_active, per_team_limit) ==
  LET total_active == SumTeams(active_per_team)
      high_load == IF max_active > 0 THEN 10 * total_active >= 8 * max_active
                   ELSE FALSE
  IN IF high_load
     THEN StrictShouldAdmit(team, active_per_team, max_active, per_team_limit)
     ELSE WeightedShouldAdmit(team, active_per_team, max_active, per_team_limit)

Strategies == {"strict", "weighted", "hybrid"}

\* QueryOrchestrator._create_fairness_strategy and the strategy's decision
ShouldAdmit(strategy, team, active_per_team) ==
  IF strategy = "weighted"
  THEN WeightedShouldAdmit(team, active_per_team, MaxActive, PerTeamLimit)
  ELSE IF strategy = "hybrid"
  THEN HybridShouldAdmit(team, active_per_team, MaxActive, PerTeamLimit)
  ELSE StrictShouldAdmit(team, active_per_team, MaxActive, PerTeamLimit)

\* ------------------------------------------------------------ orchestrator
\* QueryOrchestrator._parse_filters: the effective limit of a request.
\* query_params is written <<>> for an object without limit, <<n>> for an
\* object with the integer limit n, and <<kind, 0>> for the strings below.
NotJson == <<"not_json", 0>>                 \* '{"limit": '
NotObject == <<"not_object", 0>>             \* '[1, 2]'
LimitText == <<"limit_text", 0>>             \* '{"limit": "abc"}'
LimitList == <<"limit_list", 0>>             \* '{"limit": [1]}'
LimitEmptyList == <<"limit_empty_list", 0>>  \* '{"limit": []}'

\* The exception _parse_filters raises: json.JSONDecodeError is a
\* ValueError, so are the explicit raise and int("abc"); int([1]) raises
\* TypeError; an empty list is falsy and never reaches int().
ParseRaises(raw) ==
  IF Len(raw) # 2 THEN "none"
  ELSE IF raw[1] \in {"not_json", "not_object", "limit_text"} THEN "ValueError"
  ELSE IF raw[1] = "limit_list" THEN "TypeError"
  ELSE "none"

\* except ValueError: the status the Query ends with when parsing raises
\* ("none" when it does not)
ParseStatus(raw) ==
  IF ParseRaises(raw) = "ValueError" THEN "invalid_query"
  ELSE IF ParseRaises(raw) = "TypeError" THEN "rpc_error"
  ELSE "none"

\* <<n, "min_value", "abc">> is the object with limit n (0: no usable
\* limit) and a min_value bound that float() cannot convert.
BadBound(n) == <<n, "min_value", "abc">>

HasBadBound(raw) == Len(raw) = 3

ParseLimit(raw) ==
  LET limit == IF Len(raw) \notin {1, 3} THEN DefaultLimit
               ELSE IF raw[1] = 0 THEN DefaultLimit ELSE raw[1]
  IN Max(1, Min(limit, DefaultLimit))

\* (mutant: base is not raised to 1)
MutAllocationsBaseZero(neighbor_count, total_limit0) ==
  IF neighbor_count <= 0 THEN <<>>
  ELSE LET total_limit == Max(1, total_limit0)
           base == total_limit \div neighbor_count
           RECURSIVE Distribute(_, _, _)
           Distribute(allocations, remainder, idx) ==
             IF remainder > 0
             THEN Distribute([allocations EXCEPT ![(idx % neighbor_count) + 1] = @ + 1],
                             remainder - 1, idx + 1)
             ELSE allocations
       IN Distribute([i \in 1..neighbor_count |-> base],
                     total_limit - base * neighbor_count, 0)

\* QueryOrchestrator._compute_leader_allocations
compute_leader_allocations(neighbor_count, total_limit0) ==
  IF neighbor_count <= 0 THEN <<>>
  ELSE LET total_limit == Max(1, total_limit0)
           base == Max(1, total_limit \div neighbor_count)
           RECURSIVE Distribute(_, _, _)
           Distribute(allocations, remainder, idx) ==
             IF remainder > 0
             THEN Distribute([allocations EXCEPT ![(idx % neighbor_count) + 1] = @ + 1],
                             remainder - 1, idx + 1)
             ELSE allocations
       IN Distribute([i \in 1..neighbor_count |-> base],
                     total_limit - base * neighbor_count, 0)

\* (mutant: a team leader takes the workers of every team)
MutRoleTargetsAnyTeam(p) ==
  LET teamLeader(n) == Config[n].role = "team_leader"
      worker(n) == Config[n].role = "worker"
  IN IF neighbors_of(p) = <<>> THEN <<>>
     ELSE IF Config[p].role = "leader" THEN SelectSeq(neighbors_of(p), teamLeader)
     ELSE IF Config[p].role = "team_leader" THEN SelectSeq(neighbors_of(p), worker)
     ELSE <<>>

\* The role filter of QueryOrchestrator._select_forward_targets
RoleTargets(p) ==
  LET teamLeader(n) == Config[n].role = "team_leader"
      ownWorker(n) == Config[n].team = Config[p].team /\ Config[n].role = "worker"
  IN IF neighbors_of(p) = <<>> THEN <<>>
     ELSE IF Config[p].role = "leader" THEN SelectSeq(neighbors_of(p), teamLeader)
     ELSE IF Config[p].role = "team_leader" THEN SelectSeq(neighbors_of(p), ownWorker)
     ELSE <<>>

\* neighbors[start:] + neighbors[:start]
Rotate(neighbors, start) ==
  SubSeq(neighbors, start + 1, Len(neighbors)) \o SubSeq(neighbors, 1, start)

\* QueryOrchestrator._select_forward_targets: the visiting order for the
\* rotation counter rr, and the counter afterwards.
select_forward_targets(p, rr) ==
  IF RoleTargets(p) = <<>> THEN <<>>
  ELSE Rotate(RoleTargets(p), rr % Len(RoleTargets(p)))

RrAfterSelect(p, rr) == IF RoleTargets(p) = <<>> THEN rr ELSE rr + 1

\* DataStore.query on the rows matching the filter
DataStoreQuery(p, limit) == Take(Data[p], Max(1, limit))

\* ------------------------------------------------------------------ state
VARIABLES
  frames,      \* one record per Query RPC received, in order of arrival
  cache,       \* per process: uid -> ChunkedResult
  admActive,   \* per process: admitted uid -> team bucket
  admPerTeam,  \* per process: team bucket -> active count
  rejections,  \* per process: rejection counter
  admits,      \* per process: number of successful admits (history)
  releases,    \* per process: number of releases of admitted uids (history)
  rrIndex,     \* per process: rotation counter _rr_index
  fairness,    \* the fairness strategy the processes were started with
  failures,    \* outbound RPCs that have failed so far
  submitted,   \* Query calls submitted by clients so far
  nextUid,     \* uids issued so far, over all processes
  lastChunk,   \* the last ChunkResponse a client received
  lastMetrics, \* the last MetricsResponse a client received
  pulls,       \* GetChunk calls being served: thread -> its position and locals
  delivered,   \* (process, uid) whose last chunk has been returned
  pulled       \* (process, uid, index) of every chunk returned with success

vars == << frames, cache, admActive, admPerTeam, rejections, admits, releases,
           rrIndex, fairness, failures, submitted, nextUid,
           lastChunk, lastMetrics, pulls, delivered, pulled >>

admVars == << admActive, admPerTeam, rejections, admits, releases >>

Frames == 1..Len(frames)

NoResponse == [status |-> "none"]

NoMetrics == [process_id |-> "none"]

Active(p) == Cardinality(DOMAIN admActive[p])

\* ------------------------------------------------- admission controller
\* RequestAdmissionController.admit: the fairness decision and the counter
\* update are one step under the controller's lock.
Admitted(p, team) == ShouldAdmit(fairness, team, admPerTeam[p])

AdmitEffect(p, uid, team) ==
  IF Admitted(p, team)
  THEN /\ admActive' = [admActive EXCEPT ![p] = (uid :> Lower(team)) @@ @]
       /\ admPerTeam' = [admPerTeam EXCEPT ![p][Lower(team)] = @ + 1]
       /\ admits' = [admits EXCEPT ![p] = @ + 1]
       /\ UNCHANGED << rejections, releases >>
  ELSE /\ rejections' = [rejections EXCEPT ![p] = @ + 1]
       /\ UNCHANGED << admActive, admPerTeam, admits, releases >>

\* RequestAdmissionController.release: idempotent.
ReleaseEffect(p, uid) ==
  IF uid \in DOMAIN admActive[p]
  THEN /\ admActive' = [admActive EXCEPT
                          ![p] = [u \in DOMAIN @ \ {uid} |-> @[u]]]
       /\ admPerTeam' = [admPerTeam EXCEPT ![p][admActive[p][uid]] = @ - 1]
       /\ releases' = [releases EXCEPT ![p] = @ + 1]
       /\ UNCHANGED << rejections, admits >>
  ELSE UNCHANGED admVars

\* ------------------------------------------------------------------ metrics
\* (mutant: health is derived from the load, not from the rejections)
MutMetricsHealthFromLoad(p) ==
  [process_id |-> p, active_requests |-> Active(p), max_capacity |-> MaxActive,
   is_healthy |-> Active(p) < MaxActive,
   queue_size |-> Cardinality(DOMAIN cache[p])]

\* QueryOrchestrator.build_metrics_response, from the snapshot of the
\* admission controller and the size of the cache
build_metrics_response(p) ==
  [process_id |-> p, active_requests |-> Active(p), max_capacity |-> MaxActive,
   is_healthy |-> rejections[p] = 0,
   queue_size |-> Cardinality(DOMAIN cache[p])]

\* A client calls GetMetrics on process p.
GetMetrics(p) ==
  /\ lastMetrics' = build_metrics_response(p)
  /\ UNCHANGED pulls
  /\ UNCHANGED << frames, cache, admVars, rrIndex, fairness, failures,
                  submitted, nextUid, lastChunk, delivered, pulled >>

\* ----------------------------------------------------------- result cache
\* ResultCache.store / get / delete; age is now - created_at of the entry
\* and get returns nothing for an entry whose age has reached the TTL.
CacheStore(c, uid, result) == (uid :> result) @@ c

Expired(result) == result.age >= result.ttl

\* (mutant: get ignores the TTL)
MutCacheGetIgnoresTtl(c, uid) == IF uid \in DOMAIN c THEN c[uid] ELSE NoChunk

CacheGet(c, uid) ==
  IF uid \in DOMAIN c /\ ~Expired(c[uid]) THEN c[uid] ELSE NoChunk

CacheDelete(c, uid) == [u \in DOMAIN c \ {uid} |-> c[u]]

\* QueryOrchestrator.get_chunk: the response, and the cache afterwards.
GetChunkResponse(c, uid, chunk_index) ==
  LET result == CacheGet(c, uid) IN
  IF result = NoChunk
  THEN [uid |-> uid, chunk_index |-> chunk_index, total_chunks |-> 0,
        data |-> JsonDumps(<<>>), is_last |-> TRUE, status |-> "not_found"]
  ELSE LET chunk == ResultGetChunk(result, chunk_index) IN
       IF chunk = NoChunk
       THEN [uid |-> uid, chunk_index |-> chunk_index,
             total_chunks |-> TotalChunks(result.records, result.chunk_size),
             data |-> JsonDumps(<<>>), is_last |-> TRUE, status |-> "out_of_range"]
       ELSE [uid |-> uid, chunk_index |-> chunk.chunk_index,
             total_chunks |-> chunk.total_chunks,
             data |-> JsonDumps(chunk.data), is_last |-> chunk.is_last,
             status |-> "success"]

\* (mutant: a returned chunk is removed from the stored rows)
MutGetChunkCacheConsumes(c, uid, chunk_index) ==
  LET result == CacheGet(c, uid) IN
  IF result = NoChunk THEN c
  ELSE LET chunk == ResultGetChunk(result, chunk_index) IN
       IF chunk = NoChunk THEN c
       ELSE IF chunk.is_last THEN CacheDelete(c, uid)
       ELSE [c EXCEPT ![uid].records =
               SubSeq(@, 1, chunk_index * result.chunk_size)
               \o SubSeq(@, (chunk_index + 1) * result.chunk_size + 1, Len(@))]

\* (mutant: an index out of range drops the entry)
MutGetChunkCacheDropsOnMiss(c, uid, chunk_index) ==
  LET result == CacheGet(c, uid) IN
  IF result = NoChunk THEN c
  ELSE LET chunk == ResultGetChunk(result, chunk_index) IN
       IF chunk = NoChunk THEN CacheDelete(c, uid)
       ELSE IF chunk.is_last THEN CacheDelete(c, uid) ELSE c

\* (mutant: the entry is deleted by the first chunk that is returned)
MutGetChunkCacheDeletesEarly(c, uid, chunk_index) ==
  LET result == CacheGet(c, uid) IN
  IF result = NoChunk THEN c
  ELSE IF ResultGetChunk(result, chunk_index) = NoChunk THEN c
  ELSE CacheDelete(c, uid)

\* (mutant: the entry is kept after the last chunk)
MutGetChunkCacheKeeps(c, uid, chunk_index) == c

GetChunkCache(c, uid, chunk_index) ==
  LET result == CacheGet(c, uid) IN
  IF result = NoChunk THEN c
  ELSE LET chunk == ResultGetChunk(result, chunk_index) IN
       IF chunk = NoChunk THEN c
       ELSE IF chunk.is_last THEN CacheDelete(c, uid) ELSE c

\* ------------------------------------------------------- execute_query
\* (mutant: the TTL handed to the result is not the cache's)
MutNewChunkedResultWrongTtl(records, chunk_size) ==
  [records |-> records, chunk_size |-> chunk_size, age |-> 0,
   ttl |-> ResultTtl * 1000]

\* ChunkedResult(uid, records, chunk_size, ttl_seconds = self._cache.ttl)
NewChunkedResult(records, chunk_size) ==
  [records |-> records, chunk_size |-> chunk_size, age |-> 0, ttl |-> ResultTtl]

\* The uid of the Query RPC that arrives next (uuid4: never issued before).
FreshUid == nextUid + 1

InFlight == {f \in Frames : frames[f].pc # "done"}

\* QueryOrchestrator.execute_query up to the admission decision, for a
\* request (hops, limit, team) from `parent` (a frame, or Client) at p.
TargetTeam(p, team) == IF team # NoTeam THEN team ELSE Config[p].team

\* (mutant: the loop check is missing)
MutLoopDetectedNever(p, hops) == FALSE

\* if self._process.id in hops
LoopDetected(p, hops) == InSeq(p, hops)

\* (mutant: the response echoes the hops of the request)
MutResponseHopsEcho(p, hops) == hops

\* hops = list(request.hops); hops.append(self._process.id) after the loop
\* check; every response carries this list.
ResponseHops(p, hops) == IF LoopDetected(p, hops) THEN hops ELSE Append(hops, p)

ReceivedWith(p, parent, hops, rawLimit, team, ok) ==
  LET loop == LoopDetected(p, hops)
      newHops == Append(hops, p)
      parse == ParseStatus(rawLimit)
  IN [ proc |-> p, parent |-> parent, reqHops |-> hops, rawLimit |-> rawLimit,
       reqTeam |-> team,
       hops |-> IF loop THEN hops ELSE newHops,
       limit |-> ParseLimit(rawLimit),
       uid |-> IF loop \/ parse # "none" THEN NoUid ELSE FreshUid,
       pc |-> IF loop \/ parse # "none" \/ ~ok THEN "done" ELSE "admitted",
       status |-> IF loop THEN "loop_detected"
                  ELSE IF parse # "none" THEN parse
                  ELSE IF ok THEN "none" ELSE "rejected",
       respUid |-> NoUid, totalChunks |-> 0, totalRecords |-> 0,
       respHops |-> ResponseHops(p, hops),
       agg |-> <<>>, targets |-> <<>>, allocs |-> <<>>, k |-> 0, child |-> 0,
       rUid |-> NoUid, rChunks |-> 0, rIdx |-> 0, rRemaining |-> 0,
       collected |-> <<>>, records |-> <<>>, released |-> 0 ]

\* (mutant: the result of admit is ignored)
MutReceivedIgnoresAdmit(p, parent, hops, rawLimit, team) ==
  ReceivedWith(p, parent, hops, rawLimit, team, TRUE)

Received(p, parent, hops, rawLimit, team) ==
  ReceivedWith(p, parent, hops, rawLimit, team, Admitted(p, TargetTeam(p, team)))

\* (mutant: admission is taken before the loop check)
MutReceiveAdmissionFirst(p, hops, rawLimit, team) ==
  AdmitEffect(p, FreshUid, TargetTeam(p, team))

\* The admission taken by execute_query: none when a loop is detected or
\* the filters do not parse.
ReceiveAdmission(p, hops, rawLimit, team) ==
  IF LoopDetected(p, hops) \/ ParseStatus(rawLimit) # "none" THEN UNCHANGED admVars
  ELSE AdmitEffect(p, FreshUid, TargetTeam(p, team))

\* uuid4() is drawn only after the loop check and the parse.
UidsAfter(p, hops, rawLimit) ==
  IF LoopDetected(p, hops) \/ ParseStatus(rawLimit) # "none" THEN nextUid
  ELSE nextUid + 1

\* A client submits a Query to process p while fewer than maxInFlight Query
\* RPCs are running.  The records of the RPCs that have returned are dropped
\* once nothing is running.
ClientSubmit(p, hops, rawLimit, team, maxInFlight, maxQueries) ==
  /\ submitted < maxQueries
  /\ Cardinality(InFlight) < maxInFlight
  /\ submitted' = submitted + 1
  /\ nextUid' = UidsAfter(p, hops, rawLimit)
  /\ frames' = Append(IF InFlight = {} THEN <<>> ELSE frames,
                      Received(p, Client, hops, rawLimit, team))
  /\ ReceiveAdmission(p, hops, rawLimit, team)
  /\ UNCHANGED << cache, rrIndex, fairness, failures, lastChunk, lastMetrics, pulls, delivered, pulled >>

\* QueryOrchestrator._collect_records up to the first forward call: the
\* local query, the early return, the target selection and the allocations.
LocalRows(p, limit) == IF HasDataStore(p) THEN DataStoreQuery(p, limit) ELSE <<>>

\* DataStore._matches: float(min_val) raises ValueError on the first record
\* it examines.
LocalQueryRaises(p, raw) == HasDataStore(p) /\ HasBadBound(raw) /\ Data[p] # <<>>

Collect(f) ==
  LET fr == frames[f]
      p == fr.proc
      local_rows == LocalRows(p, fr.limit)
      remaining == fr.limit - Len(local_rows)
      full == HasDataStore(p) /\ remaining <= 0
      neighbors == IF full THEN <<>> ELSE select_forward_targets(p, rrIndex[p])
      total_limit == Max(1, fr.limit)
  IN /\ fr.pc = "admitted"
     /\ ~LocalQueryRaises(p, fr.rawLimit)
     /\ rrIndex' = [rrIndex EXCEPT
                      ![p] = IF full THEN @ ELSE RrAfterSelect(p, @)]
     /\ frames' = [frames EXCEPT ![f] =
            [fr EXCEPT !.agg = local_rows,
                       !.targets = neighbors,
                       !.allocs = compute_leader_allocations(Len(neighbors), total_limit),
                       !.k = IF neighbors = <<>> THEN 0 ELSE 1,
                       !.pc = IF neighbors = <<>> THEN "finish" ELSE "forward"]]
     /\ UNCHANGED << cache, admVars, fairness, failures, lastChunk, lastMetrics, pulls, delivered, pulled, submitted, nextUid >>

\* (mutant: the rows of a neighbor are put in front of the rows so far)
MutAfterNeighborPrepends(fr, rows) ==
  [fr EXCEPT !.agg = rows \o @,
             !.k = IF fr.k < Len(fr.targets) THEN @ + 1 ELSE @,
             !.pc = IF fr.k < Len(fr.targets) THEN "forward" ELSE "finish",
             !.child = 0, !.rUid = NoUid, !.rChunks = 0, !.rIdx = 0,
             !.rRemaining = 0, !.collected = <<>>]

\* The forwarder's bookkeeping once neighbor k has contributed `rows`
\* (aggregated.extend(remote_rows) and the next iteration of the loop).
AfterNeighbor(fr, rows) ==
  [fr EXCEPT !.agg = @ \o rows,
             !.k = IF fr.k < Len(fr.targets) THEN @ + 1 ELSE @,
             !.pc = IF fr.k < Len(fr.targets) THEN "forward" ELSE "finish",
             !.child = 0, !.rUid = NoUid, !.rChunks = 0, !.rIdx = 0,
             !.rRemaining = 0, !.collected = <<>>]

\* QueryOrchestrator._request_neighbor_records: the forward request.
ForwardLimit(fr) == Max(1, fr.allocs[fr.k])

\* forward_filters = dict(filters) with the limit replaced
ForwardParams(fr) ==
  IF HasBadBound(fr.rawLimit) THEN BadBound(ForwardLimit(fr))
  ELSE <<ForwardLimit(fr)>>

\* (mutant: the forwarder always names its own team)
MutForwardTeamOwn(p, n) == Config[p].team

\* team_hint = None if leader else own team; team_hint or neighbor.team
ForwardTeam(p, n) ==
  LET team_hint == IF Config[p].role = "leader" THEN NoTeam ELSE Config[p].team
  IN IF team_hint # NoTeam THEN team_hint ELSE Config[n].team

\* The forward Query to neighbor k is received by the neighbor, which runs
\* execute_query up to its admission decision.
ForwardCall(f) ==
  LET fr == frames[f]
      n == fr.targets[fr.k]
      team == ForwardTeam(fr.proc, n)
      callee == Received(n, f, fr.hops, ForwardParams(fr), team)
  IN /\ fr.pc = "forward"
     /\ frames' = Append(
          [frames EXCEPT ![f] =
             IF callee.pc = "done" THEN AfterNeighbor(fr, <<>>)
             ELSE [fr EXCEPT !.pc = "waiting", !.child = Len(frames) + 1]],
          callee)
     /\ ReceiveAdmission(n, fr.hops, ForwardParams(fr), team)
     /\ nextUid' = UidsAfter(n, fr.hops, ForwardParams(fr))
     /\ UNCHANGED << cache, rrIndex, fairness, failures, submitted,
                     lastChunk, lastMetrics, pulls, delivered, pulled >>

\* client.query raises (neighbor down, transport error): caught, no rows.
ForwardFails(f) ==
  LET fr == frames[f] IN
  /\ fr.pc = "forward"
  /\ failures < MaxFailures
  /\ failures' = failures + 1
  /\ frames' = [frames EXCEPT ![f] = AfterNeighbor(fr, <<>>)]
  /\ UNCHANGED << cache, admVars, rrIndex, fairness, lastChunk, lastMetrics, pulls, delivered, pulled, submitted, nextUid >>

\* The neighbor's Query has returned (or ended in an RPC error).
ForwardReturns(f) ==
  LET fr == frames[f]
      resp == frames[fr.child]
  IN /\ fr.pc = "waiting"
     /\ resp.pc = "done"
     /\ frames' = [frames EXCEPT ![f] =
          IF resp.status # "ready" \/ resp.respUid = NoUid \/ resp.totalChunks <= 0
          THEN AfterNeighbor(fr, <<>>)
          ELSE [fr EXCEPT !.pc = "drain", !.rUid = resp.respUid,
                          !.rChunks = resp.totalChunks, !.rIdx = 0,
                          !.rRemaining = ForwardLimit(fr), !.collected = <<>>]]
     /\ UNCHANGED << cache, admVars, rrIndex, fairness, failures,
                     lastChunk, lastMetrics, pulls, delivered, pulled, submitted, nextUid >>

\* (mutant: the drain stops after the first chunk)
MutDrainedFrameOneChunk(fr, resp) ==
  LET rows == SafeJsonLoads(resp.data)
      taken == Take(rows, fr.rRemaining)
  IN IF resp.status # "success" THEN AfterNeighbor(fr, fr.collected)
     ELSE AfterNeighbor(fr, fr.collected \o taken)

\* (mutant: the drain goes on after a reply that is no success)
MutDrainedFrameRetries(fr, resp) ==
  LET rows == SafeJsonLoads(resp.data)
      taken == Take(rows, fr.rRemaining)
      remaining == fr.rRemaining - Len(taken)
      collected == fr.collected \o taken
  IN IF resp.status # "success" /\ fr.rIdx + 1 >= fr.rChunks
     THEN AfterNeighbor(fr, fr.collected)
     ELSE IF resp.status # "success" THEN [fr EXCEPT !.rIdx = @ + 1]
     ELSE IF resp.is_last \/ fr.rIdx + 1 >= fr.rChunks \/ remaining <= 0
     THEN AfterNeighbor(fr, collected)
     ELSE [fr EXCEPT !.rIdx = @ + 1, !.rRemaining = remaining,
                     !.collected = collected]

\* One iteration of QueryOrchestrator._drain_remote_chunks: GetChunk(rUid,
\* rIdx) is served by the neighbor and its rows are collected.
DrainedFrame(fr, resp) ==
  LET rows == SafeJsonLoads(resp.data)
      taken == Take(rows, fr.rRemaining)
      remaining == fr.rRemaining - Len(taken)
      collected == fr.collected \o taken
  IN IF resp.status # "success" THEN AfterNeighbor(fr, fr.collected)
     ELSE IF resp.is_last \/ fr.rIdx + 1 >= fr.rChunks \/ remaining <= 0
     THEN AfterNeighbor(fr, collected)
     ELSE [fr EXCEPT !.rIdx = @ + 1, !.rRemaining = remaining,
                     !.collected = collected]

DrainChunk(f) ==
  LET fr == frames[f]
      n == fr.targets[fr.k]
      resp == GetChunkResponse(cache[n], fr.rUid, fr.rIdx)
  IN /\ fr.pc = "drain"
     /\ cache' = [cache EXCEPT ![n] = GetChunkCache(@, fr.rUid, fr.rIdx)]
     /\ delivered' = IF resp.status = "success" /\ resp.is_last
                     THEN delivered \cup {<<n, fr.rUid>>} ELSE delivered
     /\ pulled' = IF resp.status = "success"
                  THEN pulled \cup {<<n, fr.rUid, fr.rIdx>>} ELSE pulled
     /\ frames' = [frames EXCEPT ![f] = DrainedFrame(fr, resp)]
     /\ UNCHANGED << admVars, rrIndex, fairness, failures, lastChunk, lastMetrics, pulls, submitted, nextUid >>

\* The state of a frame when execute_query has returned.
Exited(fr, status, records) ==
  [fr EXCEPT !.pc = "done", !.status = status,
             !.respUid = IF status = "ready" THEN fr.uid ELSE NoUid,
             !.records = records,
             !.totalRecords = Len(records),
             !.totalChunks = TotalChunks(records, FixedChunkSize(Len(records))),
             !.agg = <<>>, !.k = 0, !.child = 0, !.rUid = NoUid, !.rChunks = 0,
             !.rIdx = 0, !.rRemaining = 0, !.collected = <<>>,
             !.released = @ + 1]

\* (mutant: release only on the success path)
MutReleaseOnErrorSkipped(p, uid) == UNCHANGED admVars

\* finally: self._admission.release(uid), reached by an exception
ReleaseOnError(p, uid) == ReleaseEffect(p, uid)

\* client.get_chunk raises during the drain: nothing in _drain_remote_chunks,
\* _request_neighbor_records or _collect_records catches it, so it leaves
\* execute_query through the finally clause (release) as an RPC error.
DrainFails(f) ==
  LET fr == frames[f] IN
  /\ fr.pc = "drain"
  /\ failures < MaxFailures
  /\ failures' = failures + 1
  /\ frames' = [frames EXCEPT ![f] = Exited(fr, "rpc_error", <<>>)]
  /\ ReleaseOnError(fr.proc, fr.uid)
  /\ UNCHANGED << cache, rrIndex, fairness, lastChunk, lastMetrics, pulls, delivered, pulled, submitted, nextUid >>

\* self._data_store.query raises in _collect_records: nothing there or in
\* execute_query catches it, so it leaves execute_query through the
\* finally clause (release) as an RPC error.
LocalQueryFails(f) ==
  LET fr == frames[f] IN
  /\ fr.pc = "admitted"
  /\ LocalQueryRaises(fr.proc, fr.rawLimit)
  /\ frames' = [frames EXCEPT ![f] = Exited(fr, "rpc_error", <<>>)]
  /\ ReleaseOnError(fr.proc, fr.uid)
  /\ UNCHANGED << cache, rrIndex, fairness, failures, lastChunk, lastMetrics, pulls, delivered,
                  pulled, submitted, nextUid >>

\* (mutant: the final trim is missing)
MutTrimNone(aggregated, limit) == aggregated

\* aggregated[: filters["limit"]]
TrimToLimit(aggregated, limit) == Take(aggregated, limit)

\* The end of execute_query: trim, chunk, store, respond, release.
Finish(f) ==
  LET fr == frames[f]
      records == TrimToLimit(fr.agg, fr.limit)
      chunked == NewChunkedResult(records, FixedChunkSize(Len(records)))
  IN /\ fr.pc = "finish"
     /\ cache' = [cache EXCEPT ![fr.proc] = CacheStore(@, fr.uid, chunked)]
     /\ frames' = [frames EXCEPT ![f] = Exited(fr, "ready", records)]
     /\ ReleaseEffect(fr.proc, fr.uid)
     /\ UNCHANGED << rrIndex, fairness, failures, lastChunk, lastMetrics, pulls, delivered, pulled, submitted, nextUid >>

\* A client pulls chunk i of the result of its ready query f.
ClientGetChunk(f, i) ==
  LET fr == frames[f]
      resp == GetChunkResponse(cache[fr.proc], fr.respUid, i)
  IN /\ fr.parent = Client
     /\ fr.status = "ready"
     /\ cache' = [cache EXCEPT ![fr.proc] = GetChunkCache(@, fr.respUid, i)]
     /\ lastChunk' = [resp EXCEPT !.data = SafeJsonLoads(@)] @@ [proc |-> fr.proc, frame |-> f]
     /\ UNCHANGED << lastMetrics, pulls >>
     /\ delivered' = IF resp.status = "success" /\ resp.is_last
                     THEN delivered \cup {<<fr.proc, fr.respUid>>} ELSE delivered
     /\ pulled' = IF resp.status = "success"
                  THEN pulled \cup {<<fr.proc, fr.respUid, i>>} ELSE pulled
     /\ UNCHANGED << frames, admVars, rrIndex, fairness, failures, submitted, nextUid >>

\* ----------------------------------------------------------- the overlay
\* The requests clients send: to the leader, a team leader and a worker,
\* with and without a limit, with hops that name a downstream process or
\* the receiver itself, and with a team override.
Req(p, h, l, t) == [proc |-> p, hops |-> h, limit |-> l, team |-> t]

ClientRequests ==
  { Req("A", <<>>, NoLimit, NoTeam), Req("A", <<>>, <<1>>, NoTeam),
    Req("A", <<"B">>, <<2>>, "Pink"), Req("B", <<>>, <<2>>, NoTeam),
    Req("B", <<"B">>, NoLimit, NoTeam), Req("E", <<"A">>, NoLimit, NoTeam),
    Req("C", <<>>, <<1>>, NoTeam) }

\* A query that keeps a worker busy while another query runs.
BusyRequests == { Req("C", <<>>, NoLimit, NoTeam) }

ChunkIndexes == -1 .. 2

Init ==
  /\ frames = <<>>
  /\ cache = [p \in Procs |-> <<>>]
  /\ admActive = [p \in Procs |-> <<>>]
  /\ admPerTeam = [p \in Procs |-> [t \in TeamKeys |-> 0]]
  /\ rejections = [p \in Procs |-> 0]
  /\ admits = [p \in Procs |-> 0]
  /\ releases = [p \in Procs |-> 0]
  /\ rrIndex = [p \in Procs |-> 0]
  /\ fairness = "strict"
  /\ failures = 0
  /\ submitted = 0
  /\ nextUid = 0
  /\ lastChunk = NoResponse
  /\ lastMetrics = NoMetrics
  /\ pulls = <<>>
  /\ delivered = {}
  /\ pulled = {}

Next ==
  \/ \E r \in ClientRequests :
       ClientSubmit(r.proc, r.hops, r.limit, r.team, 1, MaxQueries)
  \/ \E r \in BusyRequests :
       ClientSubmit(r.proc, r.hops, r.limit, r.team, 2, MaxQueries)
  \/ \E f \in Frames : Collect(f)
  \/ \E f \in Frames : ForwardCall(f)
  \/ \E f \in Frames : ForwardFails(f)
  \/ \E f \in Frames : ForwardReturns(f)
  \/ \E f \in Frames : DrainChunk(f)
  \/ \E f \in Frames : DrainFails(f)
  \/ \E f \in Frames : Finish(f)
  \/ \E f \in Frames, i \in ChunkIndexes : ClientGetChunk(f, i)

Spec == Init /\ [][Next]_vars

\* The steps of the Query threads: a running thread keeps being scheduled
\* and each outbound RPC returns or fails.
Progress ==
  \E f \in Frames :
    \/ Collect(f) \/ ForwardCall(f) \/ ForwardFails(f) \/ ForwardReturns(f)
    \/ DrainChunk(f) \/ DrainFails(f) \/ Finish(f)

FairSpec == Spec /\ WF_vars(Progress)

\* ------------------------------------------- concurrent queries, one process
\* Clients query worker C concurrently (up to MaxConcurrent Query RPCs at
\* once), under each fairness strategy and with each team bucket, while a
\* query to team leader B forwards to C.
AdmitTeams == { NoTeam, "Pink", "Green" }

InitAdmit ==
  /\ frames = <<>>
  /\ cache = [p \in Procs |-> <<>>]
  /\ admActive = [p \in Procs |-> <<>>]
  /\ admPerTeam = [p \in Procs |-> [t \in TeamKeys |-> 0]]
  /\ rejections = [p \in Procs |-> 0]
  /\ admits = [p \in Procs |-> 0]
  /\ releases = [p \in Procs |-> 0]
  /\ rrIndex = [p \in Procs |-> 0]
  /\ fairness \in Strategies
  /\ failures = 0
  /\ submitted = 0
  /\ nextUid = 0
  /\ lastChunk = NoResponse
  /\ lastMetrics = NoMetrics
  /\ pulls = <<>>
  /\ delivered = {}
  /\ pulled = {}

NextAdmit ==
  \/ \E t \in AdmitTeams :
       ClientSubmit("C", <<>>, <<1>>, t, MaxConcurrent, MaxAdmitQueries)
  \/ ClientSubmit("B", <<>>, <<2>>, NoTeam, 1, MaxAdmitQueries)
  \/ \E f \in Frames : Collect(f)
  \/ \E f \in Frames : ForwardCall(f)
  \/ \E f \in Frames : ForwardReturns(f)
  \/ \E f \in Frames : DrainChunk(f)
  \/ \E f \in Frames : Finish(f)

SpecAdmit == InitAdmit /\ [][NextAdmit]_vars

\* ---------------------------------------------------- metrics of a worker
\* Clients query worker C concurrently under each fairness strategy and
\* team bucket, and call GetMetrics on C at any moment.
NextMetrics ==
  \/ \E t \in AdmitTeams :
       ClientSubmit("C", <<>>, <<1>>, t, MaxConcurrent, MaxConcurrent)
  \/ \E f \in Frames : Collect(f)
  \/ \E f \in Frames : Finish(f)
  \/ GetMetrics("C")

SpecMetrics == InitAdmit /\ [][NextMetrics]_vars

\* ------------------------------------------------ chunking of one result
\* A query at worker C has just returned ready with R rows cached under
\* chunk size S, for every R <= MaxRecords and S in 1..MaxChunkSize; the
\* client then pulls chunks in any order.
RowsUpTo(n) == [i \in 1..n |-> 100 + i]

StoredFrame(records, chunk_size) ==
  [Received("C", Client, <<>>, <<Max(1, Len(records))>>, NoTeam) EXCEPT
     !.pc = "done", !.status = "ready", !.uid = 1, !.respUid = 1,
     !.limit = Max(1, Len(records)),
     !.records = records, !.totalRecords = Len(records),
     !.totalChunks = TotalChunks(records, chunk_size), !.released = 1]

InitStored(R, S) ==
  /\ cache = [p \in Procs |->
                IF p = "C" THEN (1 :> NewChunkedResult(RowsUpTo(R), S))
                ELSE <<>>]
  /\ admActive = [p \in Procs |-> <<>>]
  /\ admPerTeam = [p \in Procs |-> [t \in TeamKeys |-> 0]]
  /\ rejections = [p \in Procs |-> 0]
  /\ admits = [p \in Procs |-> IF p = "C" THEN 1 ELSE 0]
  /\ releases = [p \in Procs |-> IF p = "C" THEN 1 ELSE 0]
  /\ rrIndex = [p \in Procs |-> 0]
  /\ fairness = "strict"
  /\ failures = 0
  /\ submitted = 1
  /\ nextUid = 1
  /\ lastChunk = NoResponse
  /\ lastMetrics = NoMetrics
  /\ pulls = <<>>
  /\ delivered = {}
  /\ pulled = {}
  /\ frames = << StoredFrame(RowsUpTo(R), S) >>

InitChunk == \E R \in 0..MaxRecords, S \in 1..MaxChunkSize : InitStored(R, S)

NextChunk == \E i \in -1..MaxRecords : ClientGetChunk(1, i)

SpecChunk == InitChunk /\ [][NextChunk]_vars

\* ------------------------------------------------ the cache of one process
\* A GetChunk RPC from a client for any uid: one it was given, one that was
\* never issued, one already deleted or expired.
ClientGetChunkUid(p, uid, i) ==
  LET resp == GetChunkResponse(cache[p], uid, i) IN
  /\ cache' = [cache EXCEPT ![p] = GetChunkCache(@, uid, i)]
  /\ lastChunk' = [resp EXCEPT !.data = SafeJsonLoads(@)] @@ [proc |-> p, frame |-> 0]
  /\ UNCHANGED << lastMetrics, pulls >>
  /\ delivered' = IF resp.status = "success" /\ resp.is_last
                  THEN delivered \cup {<<p, uid>>} ELSE delivered
  /\ pulled' = IF resp.status = "success"
               THEN pulled \cup {<<p, uid, i>>} ELSE pulled
  /\ UNCHANGED << frames, admVars, rrIndex, fairness, failures, submitted, nextUid >>

\* The clock advances by one tick: every cached result is one tick older
\* (ages are not counted beyond the TTL).
Tick ==
  /\ \E p \in Procs : \E u \in DOMAIN cache[p] : cache[p][u].age < ResultTtl
  /\ cache' = [p \in Procs |->
                 [u \in DOMAIN cache[p] |->
                    [cache[p][u] EXCEPT !.age = Min(@ + 1, ResultTtl)]]]
  /\ UNCHANGED << frames, admVars, rrIndex, fairness, failures, submitted,
                  nextUid, lastChunk, lastMetrics, pulls, delivered, pulled >>

\* The sweeper of ResultCache evicts the expired entries of process p.
Sweep(p) ==
  /\ \E u \in DOMAIN cache[p] : Expired(cache[p][u])
  /\ cache' = [cache EXCEPT ![p] =
                 [u \in {v \in DOMAIN cache[p] : ~Expired(cache[p][v])} |-> cache[p][u]]]
  /\ UNCHANGED << frames, admVars, rrIndex, fairness, failures, submitted,
                  nextUid, lastChunk, lastMetrics, pulls, delivered, pulled >>

\* Worker C holds one result (R rows, the configured chunk size); clients
\* pull chunks of any uid at any index while further queries run at C.  No
\* time passes.
InitCache == \E R \in 0..MaxRecords : InitStored(R, ChunkSize)

CacheLimits == { <<1>>, NoLimit }

CacheIndexes == -1 .. ((MaxRecords + ChunkSize - 1) \div ChunkSize)

NextCache ==
  \/ \E uid \in 1..(nextUid + 1), i \in CacheIndexes : ClientGetChunkUid("C", uid, i)
  \/ \E l \in CacheLimits : ClientSubmit("C", <<>>, l, NoTeam, 2, MaxQueries)
  \/ \E f \in Frames : Collect(f)
  \/ \E f \in Frames : Finish(f)

SpecCache == InitCache /\ [][NextCache]_vars

\* The same with the clock and the sweeper.
NextTtl ==
  \/ NextCache
  \/ Tick
  \/ \E p \in Procs : Sweep(p)

SpecTtl == InitCache /\ [][NextTtl]_vars

\* The clock keeps advancing and the sweeper keeps running.
FairSpecTtl == SpecTtl /\ WF_vars(Tick) /\ \A p \in Procs : WF_vars(Sweep(p))

\* --------------------------------------------------- draining a neighbor
\* Team leader B has forwarded a query to worker C with limit L and C's
\* Query has just returned ready for a result of R rows in chunks of S
\* (frame 2); B (frame 1) handles the reply and drains the result while the
\* clock and C's sweeper run.  R may exceed L, so that the drain is also
\* seen against a neighbor that returns more than it was asked for.
DrainingFrame(L) ==
  [Received("B", Client, <<>>, <<L>>, NoTeam) EXCEPT
     !.pc = "waiting", !.uid = 2, !.targets = <<"C">>, !.allocs = <<L>>,
     !.k = 1, !.child = 2]

InitDraining(R, S, L) ==
    /\ cache = [p \in Procs |->
                  IF p = "C" THEN (1 :> NewChunkedResult(RowsUpTo(R), S))
                  ELSE <<>>]
    /\ admActive = [p \in Procs |-> IF p = "B" THEN (2 :> "green") ELSE <<>>]
    /\ admPerTeam = [p \in Procs |-> [t \in TeamKeys |->
                                         IF p = "B" /\ t = "green" THEN 1 ELSE 0]]
    /\ rejections = [p \in Procs |-> 0]
    /\ admits = [p \in Procs |-> IF p \in {"B", "C"} THEN 1 ELSE 0]
    /\ releases = [p \in Procs |-> IF p = "C" THEN 1 ELSE 0]
    /\ rrIndex = [p \in Procs |-> IF p = "B" THEN 1 ELSE 0]
    /\ fairness = "strict"
    /\ failures = 0
    /\ submitted = 1
    /\ nextUid = 2
    /\ lastChunk = NoResponse
    /\ lastMetrics = NoMetrics
    /\ pulls = <<>>
    /\ delivered = {}
    /\ pulled = {}
    /\ frames = << DrainingFrame(L),
                   [StoredFrame(RowsUpTo(R), S) EXCEPT !.parent = 1,
                                                       !.reqHops = <<"B">>,
                                                       !.hops = <<"B", "C">>,
                                                       !.respHops = <<"B", "C">>] >>

InitDrain ==
  \E R \in 0..MaxRecords, S \in 1..MaxChunkSize, L \in 1..(MaxRecords + 1) :
    InitDraining(R, S, L)

NextDrain ==
  \/ ForwardReturns(1)
  \/ DrainChunk(1)
  \/ Finish(1)
  \/ Tick
  \/ Sweep("C")

SpecDrain == InitDrain /\ [][NextDrain]_vars

\* The same without the clock, for a worker that returns at most the limit
\* it was sent.
InitHandle ==
  \E R \in 0..MaxRecords, S \in 1..MaxChunkSize, L \in 1..(MaxRecords + 1) :
    R <= L /\ InitDraining(R, S, L)

NextHandle ==
  \/ ForwardReturns(1)
  \/ DrainChunk(1)
  \/ Finish(1)

SpecHandle == InitHandle /\ [][NextHandle]_vars

\* ------------------------------------------------ one limit allocation
\* A leader or team leader that has selected neighbor_count neighbors for a
\* query with limit total_limit computes the allocations.
InitAlloc ==
  \E n \in -1..MaxNeighbors, L \in 0..MaxAllocLimit :
    /\ frames = << [pc |-> "selected", neighbor_count |-> n, total_limit |-> L,
                    allocs |-> <<>>] >>
    /\ cache = [p \in Procs |-> <<>>]
    /\ admActive = [p \in Procs |-> <<>>]
    /\ admPerTeam = [p \in Procs |-> [t \in TeamKeys |-> 0]]
    /\ rejections = [p \in Procs |-> 0]
    /\ admits = [p \in Procs |-> 0]
    /\ releases = [p \in Procs |-> 0]
    /\ rrIndex = [p \in Procs |-> 0]
    /\ fairness = "strict"
    /\ failures = 0
    /\ submitted = 1
    /\ nextUid = 1
    /\ lastChunk = NoResponse
    /\ lastMetrics = NoMetrics
    /\ pulls = <<>>
    /\ delivered = {}
    /\ pulled = {}

Allocate(f) ==
  LET fr == frames[f] IN
  /\ fr.pc = "selected"
  /\ frames' = [frames EXCEPT ![f] =
       [fr EXCEPT !.pc = "allocated",
                  !.allocs = compute_leader_allocations(fr.neighbor_count, fr.total_limit)]]
  /\ UNCHANGED << cache, admVars, rrIndex, fairness, failures, submitted, nextUid,
                  lastChunk, lastMetrics, pulls, delivered, pulled >>

NextAlloc == \E f \in Frames : Allocate(f)

SpecAlloc == InitAlloc /\ [][NextAlloc]_vars

\* ------------------------------------------------------ query parameters
\* Clients query team leader B with every kind of query_params: no limit,
\* limits below, inside and above [1, default_limit], and strings that do
\* not parse.
ParseParams ==
  { NoLimit, <<-1>>, <<0>>, <<1>>, <<DefaultLimit>>, <<DefaultLimit + 1>>,
    NotJson, NotObject, LimitText, LimitList, LimitEmptyList }

NextParse ==
  \/ \E l \in ParseParams : ClientSubmit("B", <<>>, l, NoTeam, 1, MaxQueries)
  \/ \E f \in Frames : Collect(f)
  \/ \E f \in Frames : ForwardCall(f)
  \/ \E f \in Frames : ForwardReturns(f)
  \/ \E f \in Frames : DrainChunk(f)
  \/ \E f \in Frames : Finish(f)

SpecParse == Init /\ [][NextParse]_vars

\* ---------------------------------------------------- failing data store
\* Clients query the leader, a team leader and a worker with a filter whose
\* min_value is no number, and with a sound filter.
LocalFailRequests ==
  { Req(p, <<>>, l, NoTeam) : p \in {"A", "B", "C"},
                               l \in {BadBound(0), BadBound(2), <<2>>} }

NextLocalFail ==
  \/ \E r \in LocalFailRequests :
       ClientSubmit(r.proc, r.hops, r.limit, r.team, 1, MaxQueries)
  \/ \E f \in Frames : Collect(f)
  \/ \E f \in Frames : LocalQueryFails(f)
  \/ \E f \in Frames : ForwardCall(f)
  \/ \E f \in Frames : ForwardReturns(f)
  \/ \E f \in Frames : DrainChunk(f)
  \/ \E f \in Frames : Finish(f)

SpecLocalFail == Init /\ [][NextLocalFail]_vars

\* --------------------------------------------------- one forwarder, twice
\* A forwarder (a leader without data store, or a team leader with one)
\* answers the same Query twice, one call after the other, over a stable
\* datasource: `have` local rows match, and selected neighbor i answers a
\* forward Query of limit l with min(l, rows[i]) rows.  The call is the
\* single record of frames.
OtherVarsInit ==
  /\ cache = [p \in Procs |-> <<>>]
  /\ admActive = [p \in Procs |-> <<>>]
  /\ admPerTeam = [p \in Procs |-> [t \in TeamKeys |-> 0]]
  /\ rejections = [p \in Procs |-> 0]
  /\ admits = [p \in Procs |-> 0]
  /\ releases = [p \in Procs |-> 0]
  /\ rrIndex = [p \in Procs |-> 0]
  /\ fairness = "strict"
  /\ failures = 0
  /\ submitted = 0
  /\ nextUid = 0
  /\ lastChunk = NoResponse
  /\ lastMetrics = NoMetrics
  /\ pulls = <<>>
  /\ delivered = {}
  /\ pulled = {}

NeighborRowCounts ==
  UNION { [1..n -> 0..MaxNeighborRows] : n \in 0..MaxFanout }

InitRepeat ==
  /\ \E has_store \in BOOLEAN, have \in 0..2, limit \in 1..MaxRepeatLimit,
        rows \in NeighborRowCounts :
       /\ has_store \/ have = 0
       /\ frames = << [pc |-> "idle", has_store |-> has_store, have |-> have,
                       limit |-> limit, rows |-> rows, rr_index |-> 0,
                       uid |-> NoUid, order |-> <<>>, allocs |-> <<>>,
                       sent |-> <<>>, local |-> 0, k |-> 0, agg |-> 0,
                       totals |-> <<>>, uids |-> <<>>, orders |-> <<>>,
                       rrs |-> <<>>] >>
  /\ OtherVarsInit

RepUnchanged ==
  UNCHANGED << cache, admVars, rrIndex, fairness, failures, submitted,
               lastChunk, lastMetrics, pulls, delivered, pulled >>

\* execute_query and _collect_records up to the first forward call
RepStart(f) ==
  LET fr == frames[f]
      local == IF fr.has_store THEN Min(fr.have, Max(1, fr.limit)) ELSE 0
      remaining == fr.limit - local
      full == fr.has_store /\ remaining <= 0
      n == Len(fr.rows)
      order == IF full \/ n = 0 THEN <<>>
               ELSE Rotate([i \in 1..n |-> i], fr.rr_index % n)
  IN /\ fr.pc = "idle"
     /\ Len(fr.totals) < 2
     /\ nextUid' = nextUid + 1
     /\ frames' = [frames EXCEPT ![f] =
          [fr EXCEPT !.uid = FreshUid, !.local = local, !.agg = local,
                     !.order = order,
                     !.rrs = IF order = <<>> THEN @ ELSE Append(@, fr.rr_index),
                     !.rr_index = IF order = <<>> THEN @ ELSE @ + 1,
                     !.allocs = compute_leader_allocations(Len(order), Max(1, fr.limit)),
                     !.sent = <<>>,
                     !.k = 1,
                     !.pc = IF order = <<>> THEN "finish" ELSE "forward"]]
     /\ RepUnchanged

\* _request_neighbor_records for the k-th neighbor of the visiting order:
\* the forward Query and the drain of its result
RepForward(f) ==
  LET fr == frames[f]
      limit == Max(1, fr.allocs[fr.k])
      got == Min(limit, fr.rows[fr.order[fr.k]])
  IN /\ fr.pc = "forward"
     /\ frames' = [frames EXCEPT ![f] =
          [fr EXCEPT !.agg = @ + got, !.sent = Append(@, limit),
                     !.k = @ + 1,
                     !.pc = IF fr.k < Len(fr.order) THEN "forward" ELSE "finish"]]
     /\ UNCHANGED nextUid
     /\ RepUnchanged

\* aggregated[: filters["limit"]], the store and the response
RepFinish(f) ==
  LET fr == frames[f] IN
  /\ fr.pc = "finish"
  /\ frames' = [frames EXCEPT ![f] =
       [fr EXCEPT !.totals = Append(@, Min(fr.agg, fr.limit)),
                  !.uids = Append(@, fr.uid),
                  !.orders = Append(@, fr.order),
                  !.pc = "idle"]]
  /\ UNCHANGED nextUid
  /\ RepUnchanged

NextRepeat ==
  \/ \E f \in Frames : RepStart(f)
  \/ \E f \in Frames : RepForward(f)
  \/ \E f \in Frames : RepFinish(f)

SpecRepeat == InitRepeat /\ [][NextRepeat]_vars

\* ---------------------------------------------------- fairness strategies
\* should_admit of the three strategies on one input: a team (or none), the
\* active counts per team, max_active and per_team_limit.  The call is the
\* single record of frames.
FairTeams == {NoTeam, "green", "Pink"}

InitFair ==
  /\ \E team \in FairTeams, green \in 0..MaxTeamActive, pink \in 0..MaxTeamActive,
        max_active \in 0..MaxFairActive, per_team_limit \in 0..MaxFairTeamLimit :
       frames = << [pc |-> "called", team |-> team,
                    active_per_team |-> [t \in TeamKeys |->
                                           IF t = "green" THEN green ELSE pink],
                    max_active |-> max_active,
                    per_team_limit |-> per_team_limit,
                    strict |-> FALSE, weighted |-> FALSE, hybrid |-> FALSE] >>
  /\ OtherVarsInit

Decide(f) ==
  LET fr == frames[f] IN
  /\ fr.pc = "called"
  /\ frames' = [frames EXCEPT ![f] =
       [fr EXCEPT !.pc = "decided",
          !.strict = StrictShouldAdmit(fr.team, fr.active_per_team,
                                       fr.max_active, fr.per_team_limit),
          !.weighted = WeightedShouldAdmit(fr.team, fr.active_per_team,
                                           fr.max_active, fr.per_team_limit),
          !.hybrid = HybridShouldAdmit(fr.team, fr.active_per_team,
                                       fr.max_active, fr.per_team_limit)]]
  /\ UNCHANGED << cache, admVars, rrIndex, fairness, failures, submitted,
                  nextUid, lastChunk, lastMetrics, pulls, delivered, pulled >>

NextFair == \E f \in Frames : Decide(f)

SpecFair == InitFair /\ [][NextFair]_vars

\* ------------------------------------------------------ neighbor rotation
\* Up to MaxRotateQueries Query threads of one process run
\* _collect_records up to the end of _select_forward_targets, in any
\* interleaving, over n role-filtered neighbors 1..n.  The single record of
\* frames holds _rr_index, the holder of _rr_lock and the threads.
InitRotate ==
  /\ \E n \in 0..(MaxFanout + 1) :
       frames = << [n |-> n, rr_index |-> 0, rr_lock |-> 0,
                    threads |-> [i \in 1..MaxRotateQueries |->
                                   [pc |-> "idle", start |-> -1, read |-> -1,
                                    order |-> <<>>]]] >>
  /\ OtherVarsInit

RotUnchanged ==
  UNCHANGED << cache, admVars, rrIndex, fairness, failures, submitted, nextUid,
               lastChunk, lastMetrics, pulls, delivered, pulled >>

RotThreads == 1..MaxRotateQueries

\* the local query: `full` is remaining <= 0 after the local rows, which
\* returns before any selection; so does an empty role-filtered list
RotBegin(f, i, full) ==
  LET fr == frames[f] IN
  /\ fr.threads[i].pc = "idle"
  /\ frames' = [frames EXCEPT ![f].threads[i].pc =
       IF full \/ fr.n = 0 THEN "done" ELSE "lock"]
  /\ RotUnchanged

\* (mutant: the counter is used without the lock)
MutRrLockIgnored(fr) == TRUE

\* with self._rr_lock
RrLockFree(fr) == fr.rr_lock = 0

RotAcquire(f, i) ==
  LET fr == frames[f] IN
  /\ fr.threads[i].pc = "lock"
  /\ RrLockFree(fr)
  /\ frames' = [frames EXCEPT ![f] =
       [fr EXCEPT !.rr_lock = i, !.threads[i].pc = "read"]]
  /\ RotUnchanged

\* start = self._rr_index % len(neighbors), and the load of += 1
RotRead(f, i) ==
  LET fr == frames[f] IN
  /\ fr.threads[i].pc = "read"
  /\ frames' = [frames EXCEPT ![f].threads[i] =
       [@ EXCEPT !.pc = "write", !.read = fr.rr_index,
                 !.start = fr.rr_index % fr.n]]
  /\ RotUnchanged

\* the store of self._rr_index += 1, the release of the lock and
\* return neighbors[start:] + neighbors[:start]
RotWrite(f, i) ==
  LET fr == frames[f] IN
  /\ fr.threads[i].pc = "write"
  /\ frames' = [frames EXCEPT ![f] =
       [fr EXCEPT !.rr_index = fr.threads[i].read + 1,
                  !.rr_lock = IF @ = i THEN 0 ELSE @,
                  !.threads[i].pc = "done",
                  !.threads[i].order =
                     Rotate([j \in 1..fr.n |-> j], fr.threads[i].start)]]
  /\ RotUnchanged

NextRotate ==
  \/ \E f \in Frames, i \in RotThreads, full \in BOOLEAN : RotBegin(f, i, full)
  \/ \E f \in Frames, i \in RotThreads : RotAcquire(f, i)
  \/ \E f \in Frames, i \in RotThreads : RotRead(f, i)
  \/ \E f \in Frames, i \in RotThreads : RotWrite(f, i)

SpecRotate == InitRotate /\ [][NextRotate]_vars

\* ------------------------------------------------ forwarding strategies
\* One call of forward_blocking or forward_async of RoundRobinForwarding or
\* ParallelForwarding.  request_func returns any number of rows up to the
\* limit it was given, or raises.  The call is the single record of frames:
\* the main thread's position, the shared remaining_count and aggregated
\* list, the holders of the rotation lock of the strategy, of results_lock
\* and of remaining_lock, and the neighbor threads; `called` and `passed`
\* log the neighbors request_func was called for and, for each, the limit it
\* was given and the number of rows it returned (-1: it raised).
FwdModes == {"rr_blocking", "rr_async", "par_blocking", "par_async"}

FwdNeighbors == <<"B", "C", "D">>

FwdHops == { <<>>, <<"C">> }

FwdIsAsync(mode) == mode \in {"rr_async", "par_async"}

FwdIsRoundRobin(mode) == mode \in {"rr_blocking", "rr_async"}

\* the rows request_func returns for a neighbor
FwdRows(neighbor, count) == [j \in 1..count |-> <<neighbor, j>>]

NotInHops(ns, hops) ==
  LET ok(n) == ~InSeq(n, hops) IN SelectSeq(ns, ok)

InitForward ==
  \E mode \in FwdModes, remaining \in 0..MaxRemaining, hops \in FwdHops,
     index \in 0..1 :
    /\ frames = << [pc |-> "start", mode |-> mode, neighbors |-> FwdNeighbors,
                    hops |-> hops, remaining |-> remaining, index |-> index,
                    ordered |-> <<>>, k |-> 0, remaining_count |-> remaining,
                    aggregated |-> <<>>, rot_lock |-> 0, results_lock |-> 0,
                    remaining_lock |-> 0,
                    threads |-> <<>>, called |-> <<>>, passed |-> <<>>,
                    result |-> <<>>] >>
    /\ cache = [p \in Procs |-> <<>>]
    /\ admActive = [p \in Procs |-> <<>>]
    /\ admPerTeam = [p \in Procs |-> [t \in TeamKeys |-> 0]]
    /\ rejections = [p \in Procs |-> 0]
    /\ admits = [p \in Procs |-> 0]
    /\ releases = [p \in Procs |-> 0]
    /\ rrIndex = [p \in Procs |-> 0]
    /\ fairness = "strict"
    /\ failures = 0
    /\ submitted = 1
    /\ nextUid = 1
    /\ lastChunk = NoResponse
    /\ lastMetrics = NoMetrics
    /\ pulls = <<>>
    /\ delivered = {}
    /\ pulled = {}

FwdUnchanged ==
  UNCHANGED << cache, admVars, rrIndex, fairness, failures, submitted, nextUid,
               lastChunk, lastMetrics, pulls, delivered, pulled >>

IdleThread == [pc |-> "idle", local_remaining |-> 0, rows |-> <<>>]

\* The state after the entry of the call, rotation included: in async mode
\* the filter on hops and the early return.
Entered(fr, ordered) ==
  LET valid == NotInHops(ordered, fr.hops) IN
  IF FwdIsAsync(fr.mode)
  THEN [fr EXCEPT !.ordered = valid, !.k = 1,
                  !.threads = [i \in 1..Len(valid) |-> IdleThread],
                  !.pc = IF valid = <<>> THEN "returned" ELSE "spawn"]
  ELSE [fr EXCEPT !.ordered = ordered, !.k = 1, !.pc = "loop"]

\* The entry of the call: round robin takes the lock of the strategy
\* (with self._lock), the parallel strategy has no rotation.
FwdStart(f) ==
  LET fr == frames[f] IN
  /\ fr.pc = "start"
  /\ fr.rot_lock = 0
  /\ frames' = [frames EXCEPT ![f] =
       IF FwdIsRoundRobin(fr.mode)
       THEN [fr EXCEPT !.rot_lock = 1, !.pc = "rotate"]
       ELSE Entered(fr, fr.neighbors)]
  /\ FwdUnchanged

\* start = self._index % len(neighbors); self._index += 1; the lock is
\* released and the neighbors are rotated.
FwdRotate(f) ==
  LET fr == frames[f]
      start == fr.index % Len(fr.neighbors)
  IN /\ fr.pc = "rotate"
     /\ frames' = [frames EXCEPT ![f] =
          Entered([fr EXCEPT !.index = @ + 1, !.rot_lock = 0],
                  Rotate(fr.neighbors, start))]
     /\ FwdUnchanged

\* (mutant: a request_func that raises ends the loop)
MutFwdBlockingStepBreaks(f, count) ==
  LET fr == frames[f]
      neighbor == fr.ordered[fr.k]
  IN /\ fr.pc = "loop"
     /\ frames' = [frames EXCEPT ![f] =
          IF fr.k > Len(fr.ordered)
          THEN [fr EXCEPT !.pc = "returned", !.result = fr.aggregated]
          ELSE IF InSeq(neighbor, fr.hops) THEN [fr EXCEPT !.k = @ + 1]
          ELSE IF fr.remaining_count <= 0
          THEN [fr EXCEPT !.pc = "returned", !.result = fr.aggregated]
          ELSE IF count < 0
          THEN [fr EXCEPT !.pc = "returned", !.result = fr.aggregated,
                          !.called = Append(@, neighbor),
                          !.passed = Append(@, <<fr.remaining_count, -1>>)]
          ELSE [fr EXCEPT !.k = @ + 1, !.called = Append(@, neighbor),
                          !.passed = Append(@, <<fr.remaining_count,
                                                 Min(count, fr.remaining_count)>>),
                          !.aggregated = @ \o FwdRows(neighbor, Min(count, fr.remaining_count)),
                          !.remaining_count = @ - Min(count, fr.remaining_count)]]
     /\ FwdUnchanged

\* One iteration of the loop of forward_blocking; count < 0 is a
\* request_func that raises.
FwdBlockingStep(f, count) ==
  LET fr == frames[f]
      neighbor == fr.ordered[fr.k]
  IN /\ fr.pc = "loop"
     /\ frames' = [frames EXCEPT ![f] =
          IF fr.k > Len(fr.ordered)
          THEN [fr EXCEPT !.pc = "returned", !.result = fr.aggregated]
          ELSE IF InSeq(neighbor, fr.hops) THEN [fr EXCEPT !.k = @ + 1]
          ELSE IF fr.remaining_count <= 0
          THEN [fr EXCEPT !.pc = "returned", !.result = fr.aggregated]
          ELSE IF count < 0
          THEN [fr EXCEPT !.k = @ + 1, !.called = Append(@, neighbor),
                          !.passed = Append(@, <<fr.remaining_count, -1>>)]
          ELSE [fr EXCEPT !.k = @ + 1, !.called = Append(@, neighbor),
                          !.passed = Append(@, <<fr.remaining_count,
                                                 Min(count, fr.remaining_count)>>),
                          !.aggregated = @ \o FwdRows(neighbor, Min(count, fr.remaining_count)),
                          !.remaining_count = @ - Min(count, fr.remaining_count)]]
     /\ FwdUnchanged

\* The loop that starts the neighbor threads.
FwdSpawn(f) ==
  LET fr == frames[f] IN
  /\ fr.pc = "spawn"
  /\ frames' = [frames EXCEPT ![f] =
       IF fr.k > Len(fr.ordered) \/ fr.remaining_count <= 0
       THEN [fr EXCEPT !.pc = "join"]
       ELSE [fr EXCEPT !.threads[fr.k].pc = "read", !.k = @ + 1]]
  /\ FwdUnchanged

\* worker: with remaining_lock (the thread waits until the lock is free)
ThreadAcquire(f, i) ==
  LET fr == frames[f] IN
  /\ fr.pc \in {"spawn", "join"}
  /\ i \in DOMAIN fr.threads
  /\ fr.threads[i].pc = "read"
  /\ fr.remaining_lock = 0
  /\ frames' = [frames EXCEPT ![f] =
       [fr EXCEPT !.remaining_lock = i, !.threads[i].pc = "reading"]]
  /\ FwdUnchanged

\* (mutant: remaining_lock is still held while the neighbor is called)
MutThreadReadKeepsLock(f, i) ==
  LET fr == frames[f] IN
  /\ fr.pc \in {"spawn", "join"}
  /\ i \in DOMAIN fr.threads
  /\ fr.threads[i].pc = "reading"
  /\ frames' = [frames EXCEPT ![f] =
       [fr EXCEPT !.remaining_lock = IF fr.remaining_count <= 0 THEN 0 ELSE @,
                  !.threads[i] =
                    IF fr.remaining_count <= 0 THEN [@ EXCEPT !.pc = "done"]
                    ELSE [@ EXCEPT !.pc = "call",
                                   !.local_remaining = fr.remaining_count]]]
  /\ FwdUnchanged

\* worker: local_remaining = remaining_count[0]; return if it is <= 0;
\* remaining_lock is released either way
ThreadRead(f, i) ==
  LET fr == frames[f] IN
  /\ fr.pc \in {"spawn", "join"}
  /\ i \in DOMAIN fr.threads
  /\ fr.threads[i].pc = "reading"
  /\ frames' = [frames EXCEPT ![f] =
       [fr EXCEPT !.remaining_lock = 0,
                  !.threads[i] =
                    IF fr.remaining_count <= 0 THEN [@ EXCEPT !.pc = "done"]
                    ELSE [@ EXCEPT !.pc = "call",
                                   !.local_remaining = fr.remaining_count]]]
  /\ FwdUnchanged

\* worker: rows = request_func(neighbor, ..., local_remaining), outside any
\* lock; count < 0 is a call that raises.
ThreadCall(f, i, count) ==
  LET fr == frames[f] IN
  /\ fr.pc \in {"spawn", "join"}
  /\ i \in DOMAIN fr.threads
  /\ fr.threads[i].pc = "call"
  /\ count <= fr.threads[i].local_remaining
  /\ frames' = [frames EXCEPT ![f] =
       [fr EXCEPT !.called = Append(@, fr.ordered[i]),
                  !.passed = Append(@, <<fr.threads[i].local_remaining, count>>),
                  !.threads[i] =
                    IF count < 0 THEN [@ EXCEPT !.pc = "done"]
                    ELSE [@ EXCEPT !.pc = "lock",
                                   !.rows = FwdRows(fr.ordered[i], count)]]]
  /\ FwdUnchanged

\* worker: with results_lock: aggregated.extend(rows)
ThreadExtend(f, i) ==
  LET fr == frames[f] IN
  /\ fr.pc \in {"spawn", "join"}
  /\ i \in DOMAIN fr.threads
  /\ fr.threads[i].pc = "lock"
  /\ fr.results_lock = 0
  /\ frames' = [frames EXCEPT ![f] =
       [fr EXCEPT !.results_lock = i,
                  !.aggregated = @ \o fr.threads[i].rows,
                  !.threads[i].pc = "subtract"]]
  /\ FwdUnchanged

\* worker: inside results_lock: with remaining_lock
ThreadNested(f, i) ==
  LET fr == frames[f] IN
  /\ fr.pc \in {"spawn", "join"}
  /\ i \in DOMAIN fr.threads
  /\ fr.threads[i].pc = "subtract"
  /\ fr.remaining_lock = 0
  /\ frames' = [frames EXCEPT ![f] =
       [fr EXCEPT !.remaining_lock = i, !.threads[i].pc = "subtracting"]]
  /\ FwdUnchanged

\* worker: remaining_count[0] -= len(rows); both locks are released
ThreadSubtract(f, i) ==
  LET fr == frames[f] IN
  /\ fr.pc \in {"spawn", "join"}
  /\ i \in DOMAIN fr.threads
  /\ fr.threads[i].pc = "subtracting"
  /\ frames' = [frames EXCEPT ![f] =
       [fr EXCEPT !.results_lock = 0,
                  !.remaining_lock = IF @ = i THEN 0 ELSE @,
                  !.remaining_count = @ - Len(fr.threads[i].rows),
                  !.threads[i].pc = "done"]]
  /\ FwdUnchanged

\* (mutant: the aggregated rows are returned untrimmed)
MutAsyncResultUntrimmed(aggregated, remaining) == aggregated

\* return aggregated[:remaining]
AsyncResult(aggregated, remaining) == Take(aggregated, remaining)

\* thread.join() over the started threads, and the return
FwdJoin(f) ==
  LET fr == frames[f] IN
  /\ fr.pc = "join"
  /\ \A i \in DOMAIN fr.threads : fr.threads[i].pc \in {"idle", "done"}
  /\ frames' = [frames EXCEPT ![f] =
       [fr EXCEPT !.pc = "returned",
                  !.result = AsyncResult(fr.aggregated, fr.remaining)]]
  /\ FwdUnchanged

FwdCounts == -1 .. MaxRemaining

NextForward ==
  \/ \E f \in Frames : FwdStart(f)
  \/ \E f \in Frames : FwdRotate(f)
  \/ \E f \in Frames, c \in FwdCounts : FwdBlockingStep(f, c)
  \/ \E f \in Frames : FwdSpawn(f)
  \/ \E f \in Frames, i \in 1..Len(FwdNeighbors) : ThreadAcquire(f, i)
  \/ \E f \in Frames, i \in 1..Len(FwdNeighbors) : ThreadRead(f, i)
  \/ \E f \in Frames, i \in 1..Len(FwdNeighbors), c \in FwdCounts : ThreadCall(f, i, c)
  \/ \E f \in Frames, i \in 1..Len(FwdNeighbors) : ThreadExtend(f, i)
  \/ \E f \in Frames, i \in 1..Len(FwdNeighbors) : ThreadNested(f, i)
  \/ \E f \in Frames, i \in 1..Len(FwdNeighbors) : ThreadSubtract(f, i)
  \/ \E f \in Frames : FwdJoin(f)

SpecForward == InitForward /\ [][NextForward]_vars

\* One call of forward_async, the rotation counter at 0.
InitFanout ==
  /\ InitForward
  /\ FwdIsAsync(frames[1].mode)
  /\ frames[1].index = 0

NextFanout ==
  \/ \E f \in Frames : FwdStart(f)
  \/ \E f \in Frames : FwdRotate(f)
  \/ \E f \in Frames : FwdSpawn(f)
  \/ \E f \in Frames, i \in 1..Len(FwdNeighbors) : ThreadAcquire(f, i)
  \/ \E f \in Frames, i \in 1..Len(FwdNeighbors) : ThreadRead(f, i)
  \/ \E f \in Frames, i \in 1..Len(FwdNeighbors), c \in FwdCounts : ThreadCall(f, i, c)
  \/ \E f \in Frames, i \in 1..Len(FwdNeighbors) : ThreadExtend(f, i)
  \/ \E f \in Frames, i \in 1..Len(FwdNeighbors) : ThreadNested(f, i)
  \/ \E f \in Frames, i \in 1..Len(FwdNeighbors) : ThreadSubtract(f, i)
  \/ \E f \in Frames : FwdJoin(f)

SpecFanout == InitFanout /\ [][NextFanout]_vars

\* Every thread that can take a step eventually takes one, and every
\* request_func call returns or raises.
FairSpecFanout == SpecFanout /\ WF_vars(NextFanout)

\* ---------------------------------------------------- concurrent GetChunk
\* GetChunk calls are served by a thread pool: the steps of get_chunk of
\* several calls at worker C interleave with each other and with queries
\* that store further results.  Each cache operation is atomic under the
\* lock of the cache; the ChunkedResult a call holds is its own reference.
MaxPullers == 2

PullThreads == 1..Len(pulls)

PullUnchanged ==
  UNCHANGED << frames, admVars, rrIndex, fairness, failures, submitted, nextUid >>

\* A GetChunk RPC arrives and is handed to a thread.
PullArrive(p, uid, i) ==
  /\ Len(pulls) < MaxPullers
  /\ pulls' = Append(pulls, [proc |-> p, uid |-> uid, chunk_index |-> i,
                             pc |-> "get", result |-> NoChunk,
                             chunk |-> NoChunk, resp |-> NoResponse])
  /\ UNCHANGED << cache, lastChunk, lastMetrics, delivered, pulled >>
  /\ PullUnchanged

\* result = self._cache.get(uid); if not result: not_found
PullGet(t) ==
  LET th == pulls[t]
      result == CacheGet(cache[th.proc], th.uid)
  IN /\ th.pc = "get"
     /\ pulls' = [pulls EXCEPT ![t] =
          IF result = NoChunk
          THEN [th EXCEPT !.pc = "done",
                          !.resp = GetChunkResponse(<<>>, th.uid, th.chunk_index)]
          ELSE [th EXCEPT !.pc = "get_chunk", !.result = result]]
     /\ UNCHANGED << cache, lastChunk, lastMetrics, delivered, pulled >>
     /\ PullUnchanged

\* chunk = result.get_chunk(chunk_index); if not chunk: out_of_range
PullGetChunk(t) ==
  LET th == pulls[t]
      chunk == ResultGetChunk(th.result, th.chunk_index)
      held == (th.uid :> th.result)
  IN /\ th.pc = "get_chunk"
     /\ pulls' = [pulls EXCEPT ![t] =
          IF chunk = NoChunk
          THEN [th EXCEPT !.pc = "done",
                          !.resp = GetChunkResponse(held, th.uid, th.chunk_index)]
          ELSE [th EXCEPT !.pc = IF chunk.is_last THEN "delete" ELSE "respond",
                          !.chunk = chunk]]
     /\ UNCHANGED << cache, lastChunk, lastMetrics, delivered, pulled >>
     /\ PullUnchanged

\* (mutant: deleting a uid that is no longer cached raises)
MutCacheDeleteRaisesOnMissing(c, uid) == uid \notin DOMAIN c

\* ResultCache.delete of a uid that another call has already deleted.
CacheDeleteRaises(c, uid) == FALSE

\* if chunk["is_last"]: self._cache.delete(uid)
PullDelete(t) ==
  LET th == pulls[t] IN
  /\ th.pc = "delete"
  /\ IF CacheDeleteRaises(cache[th.proc], th.uid)
     THEN /\ pulls' = [pulls EXCEPT ![t] =
                 [th EXCEPT !.pc = "done", !.resp = [status |-> "exception"]]]
          /\ UNCHANGED cache
     ELSE /\ pulls' = [pulls EXCEPT ![t].pc = "respond"]
          /\ cache' = [cache EXCEPT ![th.proc] = CacheDelete(@, th.uid)]
  /\ UNCHANGED << lastChunk, lastMetrics, delivered, pulled >>
  /\ PullUnchanged

\* return overlay_pb2.ChunkResponse(..., status="success")
PullRespond(t) ==
  LET th == pulls[t]
      resp == GetChunkResponse(th.uid :> th.result, th.uid, th.chunk_index)
  IN /\ th.pc = "respond"
     /\ pulls' = [pulls EXCEPT ![t] = [th EXCEPT !.pc = "done", !.resp = resp]]
     /\ lastChunk' = [resp EXCEPT !.data = SafeJsonLoads(@)]
                       @@ [proc |-> th.proc, frame |-> 0]
     /\ delivered' = IF resp.is_last THEN delivered \cup {<<th.proc, th.uid>>}
                     ELSE delivered
     /\ pulled' = pulled \cup {<<th.proc, th.uid, th.chunk_index>>}
     /\ UNCHANGED << cache, lastMetrics >>
     /\ PullUnchanged

\* Worker C holds the result of uid 1 (R rows); calls for uid 1, for the
\* uid of a query that is stored meanwhile, and for a uid never issued.
InitRace == \E R \in 1..MaxRecords : InitStored(R, ChunkSize)

RaceUids == 1..3

\* The query whose result is cached, and one further query.
RaceQueries == 2

RaceIndexes == 0 .. (((MaxRecords + ChunkSize - 1) \div ChunkSize) - 1)

NextRace ==
  \/ \E uid \in RaceUids, i \in RaceIndexes : PullArrive("C", uid, i)
  \/ \E t \in PullThreads : PullGet(t)
  \/ \E t \in PullThreads : PullGetChunk(t)
  \/ \E t \in PullThreads : PullDelete(t)
  \/ \E t \in PullThreads : PullRespond(t)
  \/ \E l \in CacheLimits : ClientSubmit("C", <<>>, l, NoTeam, 2, RaceQueries)
  \/ \E f \in Frames : Collect(f)
  \/ \E f \in Frames : Finish(f)

SpecRace == InitRace /\ [][NextRace]_vars

\* ------------------------------------------------------ hops of a response
\* Queries arrive at the leader from a client and at team leader E as if
\* forwarded by the leader (hops [A]), with parameters that parse or not,
\* two at a time so that admission can refuse one.
HopsRequests ==
  { Req("A", <<>>, NoLimit, NoTeam), Req("A", <<>>, NotJson, NoTeam),
    Req("E", <<"A">>, NoLimit, NoTeam), Req("E", <<"A">>, NotJson, NoTeam) }

NextHops ==
  \/ \E r \in HopsRequests :
       ClientSubmit(r.proc, r.hops, r.limit, r.team, 2, MaxQueries)
  \/ \E f \in Frames : Collect(f)
  \/ \E f \in Frames : ForwardCall(f)
  \/ \E f \in Frames : ForwardReturns(f)
  \/ \E f \in Frames : DrainChunk(f)
  \/ \E f \in Frames : Finish(f)

SpecHops == Init /\ [][NextHops]_vars

\* ------------------------------------------------ queries at the leader
\* Client queries at the leader, one after the other, with or without a
\* team, forwarded down the overlay; outbound RPCs may fail.
LeaderRequests ==
  { Req("A", <<>>, NoLimit, NoTeam), Req("A", <<>>, <<2>>, "Pink") }

NextLeader ==
  \/ \E r \in LeaderRequests :
       ClientSubmit(r.proc, r.hops, r.limit, r.team, 1, MaxQueries)
  \/ \E f \in Frames : Collect(f)
  \/ \E f \in Frames : ForwardCall(f)
  \/ \E f \in Frames : ForwardFails(f)
  \/ \E f \in Frames : ForwardReturns(f)
  \/ \E f \in Frames : DrainChunk(f)
  \/ \E f \in Frames : DrainFails(f)
  \/ \E f \in Frames : Finish(f)

SpecLeader == Init /\ [][NextLeader]_vars

\* ------------------------------------------------------------ chunk sizes
\* AdaptiveChunking.compute_chunk_size
AdaptiveChunkSize(total_records, base_size, max_size) ==
  IF total_records <= 100 THEN Min(50, total_records)
  ELSE IF total_records <= 500 THEN base_size
  ELSE IF total_records <= 2000 THEN Min(base_size * 2, max_size)
  ELSE max_size

\* One computation of the chunk size in execute_query, for a result of any
\* size: the strategy is the one the process was started with, built from
\* its chunk_size (Fixed: the size itself; Adaptive: base_size, with the
\* default max_size).
MaxTotalRecords == 2100

AdaptiveMaxSize == 1000

ChunkSizeBases == { ChunkSize, 600 }

InitChunkSize ==
  /\ \E strategy \in {"fixed", "adaptive"}, base \in ChunkSizeBases,
        total \in 0..MaxTotalRecords :
       frames = << [pc |-> "collected", strategy |-> strategy,
                    base_size |-> base, total_records |-> total,
                    dynamic_chunk_size |-> 0] >>
  /\ OtherVarsInit

\* dynamic_chunk_size = self._chunking_strategy.compute_chunk_size(...)
ComputeChunkSize(f) ==
  LET fr == frames[f] IN
  /\ fr.pc = "collected"
  /\ frames' = [frames EXCEPT ![f] =
       [fr EXCEPT !.pc = "chunked",
                  !.dynamic_chunk_size =
                     IF fr.strategy = "adaptive"
                     THEN AdaptiveChunkSize(fr.total_records, fr.base_size,
                                            AdaptiveMaxSize)
                     ELSE IF fr.base_size = ChunkSize
                     THEN FixedChunkSize(fr.total_records)
                     ELSE fr.base_size]]
  /\ UNCHANGED << cache, admVars, rrIndex, fairness, failures, submitted, nextUid,
                  lastChunk, lastMetrics, pulls, delivered, pulled >>

NextChunkSize == \E f \in Frames : ComputeChunkSize(f)

SpecChunkSize == InitChunkSize /\ [][NextChunkSize]_vars

\* ------------------------------------------------------- the local dataset
\* A value that may be missing (a key a dict may lack, an argument that may
\* be None) is the set of its values: empty or a singleton.
None == {}

Some(v) == {v}

ValueOf(opt) == CHOOSE v \in opt : TRUE

\* str.lower() on the parameter names of the dataset
LowerParameter(s) ==
  IF s = "PM2.5" THEN "pm2.5" ELSE IF s = "OZONE" THEN "ozone" ELSE s

\* s < t for two strings of digits (Python compares str lexicographically)
RECURSIVE StrLess(_, _)
StrLess(s, t) ==
  IF t = <<>> THEN FALSE
  ELSE IF s = <<>> THEN TRUE
  ELSE IF Head(s) # Head(t) THEN Head(s) < Head(t)
  ELSE StrLess(Tail(s), Tail(t))

\* (mutant: a max_value of 0 is taken for no bound)
MutMatchesTruthyMax(record, filters) ==
  LET parameter == filters.parameter
      date_start == filters.date_start
      date_end == filters.date_end
  IN ~ \/ (parameter # None /\ ValueOf(parameter) # ""
            /\ LowerParameter(record.parameter) # LowerParameter(ValueOf(parameter)))
       \/ (filters.min_value # None /\ record.value < ValueOf(filters.min_value))
       \/ (filters.max_value # None /\ ValueOf(filters.max_value) # 0
            /\ record.value > ValueOf(filters.max_value))
       \/ (date_start # None /\ ValueOf(date_start) # <<>>
            /\ StrLess(record.date, ValueOf(date_start)))
       \/ (date_end # None /\ ValueOf(date_end) # <<>>
            /\ StrLess(ValueOf(date_end), record.date))
       \/ (filters.lat_min # None /\ record.latitude < ValueOf(filters.lat_min))
       \/ (filters.lat_max # None /\ record.latitude > ValueOf(filters.lat_max))
       \/ (filters.lon_min # None /\ record.longitude < ValueOf(filters.lon_min))
       \/ (filters.lon_max # None /\ record.longitude > ValueOf(filters.lon_max))

\* DataStore._matches: each test returns False when it fails; parameter and
\* the dates are tested when truthy, the numeric bounds when not None.
Matches(record, filters) ==
  LET parameter == filters.parameter
      date_start == filters.date_start
      date_end == filters.date_end
  IN ~ \/ (parameter # None /\ ValueOf(parameter) # ""
            /\ LowerParameter(record.parameter) # LowerParameter(ValueOf(parameter)))
       \/ (filters.min_value # None /\ record.value < ValueOf(filters.min_value))
       \/ (filters.max_value # None /\ record.value > ValueOf(filters.max_value))
       \/ (date_start # None /\ ValueOf(date_start) # <<>>
            /\ StrLess(record.date, ValueOf(date_start)))
       \/ (date_end # None /\ ValueOf(date_end) # <<>>
            /\ StrLess(ValueOf(date_end), record.date))
       \/ (filters.lat_min # None /\ record.latitude < ValueOf(filters.lat_min))
       \/ (filters.lat_max # None /\ record.latitude > ValueOf(filters.lat_max))
       \/ (filters.lon_min # None /\ record.longitude < ValueOf(filters.lon_min))
       \/ (filters.lon_max # None /\ record.longitude > ValueOf(filters.lon_max))

\* The loop of DataStore.query over self._records from record i on.
RECURSIVE QueryLoop(_, _, _, _, _)
QueryLoop(records, filters, remaining, i, results) ==
  IF i > Len(records) THEN results
  ELSE IF Matches(records[i], filters)
  THEN IF Len(results) + 1 >= remaining THEN Append(results, records[i])
       ELSE QueryLoop(records, filters, remaining, i + 1,
                      Append(results, records[i]))
  ELSE QueryLoop(records, filters, remaining, i + 1, results)

\* DataStore.query(filters, limit): remaining = limit or filters.get("limit");
\* all records when neither is given; at least 1.
Query(records, filters, limit) ==
  LET given == IF limit # None /\ ValueOf(limit) # 0 THEN limit
               ELSE filters.limit
      remaining == IF given # None /\ ValueOf(given) # 0 THEN ValueOf(given)
                   ELSE Len(records)
  IN QueryLoop(records, filters, Max(1, remaining), 1, <<>>)

\* The records of a store, in load order: the dates are strings of digits of
\* one length, as the names of the date directories are.
StoreParameters == << "PM2.5", "OZONE", "pm2.5" >>

StoreDates == << <<1, 0>>, <<1, 1>>, <<2, 0>> >>

MaxStoreRecords == 4

StoreRecord(i) ==
  [ id |-> i,
    parameter |-> StoreParameters[(i % 3) + 1],
    value |-> i % 3,
    date |-> StoreDates[(((i - 1) \div 2) % 3) + 1],
    latitude |-> 1 + (i % 2),
    longitude |-> 1 + ((i \div 2) % 2) ]

StoreRecords == [i \in 1..MaxStoreRecords |-> StoreRecord(i)]

\* The filters of a query: any subset of the predicates, with values as a
\* client may send them (an empty parameter or date, a bound of 0, a date
\* shorter than the dates of the store), and the limit argument as the
\* callers pass it: the orchestrator a limit >= 1, the verification script
\* none, with the limit in the filters.
MaxQueryLimit == 2

OptionalOf(values) == { None } \cup { Some(v) : v \in values }

QueryFilters ==
  [ parameter : OptionalOf({"", "PM2.5", "pm2.5", "OZONE"}),
    min_value : OptionalOf({0, 2}),
    max_value : OptionalOf({0, 1}),
    date_start : OptionalOf({<<>>, <<1, 1>>, <<2>>}),
    date_end : OptionalOf({<<1>>, <<1, 1>>, <<2>>}),
    lat_min : OptionalOf({2}),
    lat_max : OptionalOf({1}),
    lon_min : OptionalOf({2}),
    lon_max : OptionalOf({1}),
    limit : OptionalOf(1..MaxQueryLimit) ]

InitQuery ==
  /\ \E filters \in QueryFilters, limit \in OptionalOf(1..MaxQueryLimit) :
       frames = << [pc |-> "call", records |-> StoreRecords,
                    filters |-> filters, limit |-> limit,
                    rows |-> <<>>, again |-> <<>>] >>
  /\ OtherVarsInit

QueryUnchanged ==
  UNCHANGED << cache, admVars, rrIndex, fairness, failures, submitted, nextUid,
               lastChunk, lastMetrics, pulls, delivered, pulled >>

\* rows = store.query(filters, limit)
CallQuery(f) ==
  LET fr == frames[f] IN
  /\ fr.pc = "call"
  /\ frames' = [frames EXCEPT ![f] =
       [fr EXCEPT !.pc = "called",
                  !.rows = Query(fr.records, fr.filters, fr.limit)]]
  /\ QueryUnchanged

\* the same call once more, on the unchanged store
RepeatQuery(f) ==
  LET fr == frames[f] IN
  /\ fr.pc = "called"
  /\ frames' = [frames EXCEPT ![f] =
       [fr EXCEPT !.pc = "repeated",
                  !.again = Query(fr.records, fr.filters, fr.limit)]]
  /\ QueryUnchanged

NextQuery ==
  \/ \E f \in Frames : CallQuery(f)
  \/ \E f \in Frames : RepeatQuery(f)

SpecQuery == InitQuery /\ [][NextQuery]_vars

\* ------------------------------------------------------- team data partition
\* int(round(n / d)) for n >= 0, d > 0: Python rounds a half to the even
\* neighbor.
RoundDiv(n, d) ==
  LET q == n \div d
      r == n % d
  IN IF 2 * r > d THEN q + 1
     ELSE IF 2 * r < d THEN q
     ELSE IF q % 2 = 0 THEN q ELSE q + 1

\* sum(values) of a list of integers
RECURSIVE SumOf(_)
SumOf(values) ==
  IF values = <<>> THEN 0 ELSE Head(values) + SumOf(Tail(values))

\* role_weights.get(member.role, 1)
RoleWeight(role) == IF role = "worker" THEN 2 ELSE 1

\* DataStore._compute_member_shares over the roles of the members
compute_member_shares(roles, total_dates) ==
  LET n == Len(roles)
      weights == [i \in 1..n |-> RoleWeight(roles[i])]
      weight_total == SumOf(weights)
      raw_shares == [i \in 1..n |->
                       Max(1, RoundDiv(weights[i] * total_dates, weight_total))]
      diff == total_dates - SumOf(raw_shares)
      take == Min(raw_shares[n] - 1, -diff)
  IN IF total_dates <= 0 THEN [i \in 1..n |-> 0]
     ELSE IF diff > 0 THEN [raw_shares EXCEPT ![n] = @ + diff]
     ELSE IF diff < 0 /\ n > 0 /\ take > 0 THEN [raw_shares EXCEPT ![n] = @ - take]
     ELSE raw_shares

\* The slice all_dates[start:end] of member idx in the loop of
\* _resolve_selected_dates; the dates of a team are 1..total_dates in the
\* sorted order of the directory names.
RECURSIVE SliceStart(_, _, _)
SliceStart(shares, total_dates, idx) ==
  IF idx = 1 THEN 0
  ELSE LET start == SliceStart(shares, total_dates, idx - 1)
       IN Min(total_dates, start + shares[idx - 1])

SliceEnd(shares, total_dates, idx) ==
  IF idx = Len(shares) THEN total_dates
  ELSE Min(total_dates, SliceStart(shares, total_dates, idx) + shares[idx])

\* DataStore._resolve_selected_dates for team member `self`: None, or a set
\* of dates.
resolve_selected_dates(members, self, total_dates, explicit_bounds) ==
  LET sameTeam(m) == m.team = members[self].team
      team_members == SelectSeq(members, sameTeam)
      ids == { team_members[i].id : i \in 1..Len(team_members) }
      roles == [i \in 1..Len(team_members) |-> team_members[i].role]
      shares == compute_member_shares(roles, total_dates)
      idx == CHOOSE i \in 1..Len(team_members) :
               team_members[i].id = members[self].id
      selected == (SliceStart(shares, total_dates, idx) + 1)
                    .. SliceEnd(shares, total_dates, idx)
  IN IF total_dates = 0 THEN Some({})
     ELSE IF explicit_bounds # None
     THEN Some({ d \in 1..total_dates :
                   ValueOf(explicit_bounds)[1] <= d
                     /\ d <= ValueOf(explicit_bounds)[2] })
     ELSE IF members[self].id \notin ids THEN None
     ELSE IF selected = {} THEN None
     ELSE Some(selected)

\* DataStore._load: the date directories whose files are loaded; an empty
\* selection and None both load every date of the team.
LoadedDates(members, self, total_dates, explicit_bounds) ==
  LET selected_dates ==
        resolve_selected_dates(members, self, total_dates, explicit_bounds)
  IN { d \in 1..total_dates :
         ~ (selected_dates # None /\ ValueOf(selected_dates) # {}
              /\ d \notin ValueOf(selected_dates)) }

\* The members of a configuration start and load their data: either the
\* processes are given their team's member list, or a process is given
\* explicit date bounds.
MaxMembers == 3

MaxDates == 5

TeamRoles == { "team_leader", "worker" }

Teams == { "green", "pink" }

MemberLists ==
  UNION { [1..n -> TeamRoles \X Teams] : n \in 1..MaxMembers }

AsMembers(l) ==
  [i \in 1..Len(l) |-> [id |-> i, role |-> l[i][1], team |-> l[i][2]]]

DateBounds == { <<lo, hi>> \in (0..(MaxDates + 1)) \X (0..(MaxDates + 1)) : lo <= hi }

InitPartition ==
  /\ \E l \in MemberLists, total \in 0..MaxDates,
        bounds \in OptionalOf(DateBounds) :
       /\ bounds # None => Len(l) = 1
       /\ frames = << [members |-> AsMembers(l), total_dates |-> total,
                       explicit_bounds |-> bounds, started |-> {},
                       loaded |-> [i \in 1..Len(l) |-> {}]] >>
  /\ OtherVarsInit

\* DataStore.__init__ of member i: self._load()
LoadMember(f, i) ==
  LET fr == frames[f] IN
  /\ i \in 1..Len(fr.members)
  /\ i \notin fr.started
  /\ frames' = [frames EXCEPT ![f] =
       [fr EXCEPT !.started = @ \cup {i},
                  !.loaded[i] = LoadedDates(fr.members, i, fr.total_dates,
                                            fr.explicit_bounds)]]
  /\ UNCHANGED << cache, admVars, rrIndex, fairness, failures, submitted, nextUid,
                  lastChunk, lastMetrics, pulls, delivered, pulled >>

NextPartition == \E f \in Frames, i \in 1..MaxMembers : LoadMember(f, i)

SpecPartition == InitPartition /\ [][NextPartition]_vars

\* ================================================================= claims
NoDup(h) == \A i, j \in 1..Len(h) : h[i] = h[j] => i = j

Ceil(a, b) == IF a % b = 0 THEN a \div b ELSE (a \div b) + 1

\* The step is the arrival of a Query RPC; its record is the last of frames'.
Arrived ==
  /\ Len(frames') > 0
  /\ submitted' # submitted \/ Len(frames') = Len(frames) + 1

ChildrenOf(f) == {g \in Frames : frames[g].parent = f}

RECURSIVE ConcatChunks(_, _, _, _)
ConcatChunks(c, uid, i, n) ==
  IF i >= n THEN <<>>
  ELSE SafeJsonLoads(GetChunkResponse(c, uid, i).data) \o ConcatChunks(c, uid, i + 1, n)

\* C1: a cached result with R records and chunk size S >= 1 has ceil(R/S)
\* chunks (0 when R = 0); GetChunk(uid, i) returns exactly the records
\* [i*S, min((i+1)*S, R)) in stored order, of length min(S, R - i*S), with
\* is_last exactly for the last index; the chunks concatenated give the
\* stored sequence; and the chunk a client received is that slice.
C1_ChunkCoverage ==
  /\ \A p \in Procs : \A uid \in DOMAIN cache[p] :
       LET r == cache[p][uid]
           R == Len(r.records)
           S == r.chunk_size
           n == TotalChunks(r.records, S)
       IN /\ n = IF R = 0 THEN 0 ELSE Ceil(R, S)
          /\ \A i \in 0..(n - 1) :
               LET resp == GetChunkResponse(cache[p], uid, i) IN
               /\ resp.status = "success"
               /\ resp.total_chunks = n
               /\ SafeJsonLoads(resp.data) =
                    [j \in 1..Min(S, R - i * S) |-> r.records[i * S + j]]
               /\ resp.is_last <=> (i = n - 1)
          /\ ConcatChunks(cache[p], uid, 0, n) = r.records
  /\ lastChunk.status = "success" =>
       LET fr == frames[lastChunk.frame]
           i == lastChunk.chunk_index
           R == fr.totalRecords
       IN /\ lastChunk.total_chunks = fr.totalChunks
          /\ lastChunk.is_last <=> (i = fr.totalChunks - 1)
          /\ \E S \in 1..MaxChunkSize :
               /\ fr.totalChunks = Ceil(R, S)
               /\ lastChunk.data =
                    [j \in 1..Min(S, R - i * S) |-> fr.records[i * S + j]]

C1_Witness ==
  /\ lastChunk.status = "success"
  /\ lastChunk.is_last
  /\ lastChunk.chunk_index = 1
  /\ Len(lastChunk.data) = 1
  /\ frames[1].totalRecords = 3

\* C2: every Query that returns ready reports totalRecords <= the effective
\* limit of its request, and the result it cached has as many rows.
C2_AtMostLimit ==
  \A f \in Frames :
    frames[f].status = "ready" =>
      /\ frames[f].totalRecords <= ParseLimit(frames[f].rawLimit)
      /\ Len(frames[f].records) = frames[f].totalRecords
      /\ frames[f].respUid \in DOMAIN cache[frames[f].proc] =>
           Len(cache[frames[f].proc][frames[f].respUid].records) <= ParseLimit(frames[f].rawLimit)

\* limit 1 at the leader with two team leaders that each returned a row
C2_Witness ==
  \E f \in Frames :
    /\ frames[f].proc = "A" /\ frames[f].status = "ready"
    /\ ParseLimit(frames[f].rawLimit) = 1 /\ frames[f].totalRecords = 1
    /\ Cardinality({g \in ChildrenOf(f) : frames[g].status = "ready"
                                          /\ frames[g].totalRecords = 1}) = 2

\* C3: a failing neighbor RPC never fails the upstream Query: every Query
\* that was admitted ends with status ready.
C3_NeighborFailureAbsorbed ==
  \A f \in Frames :
    frames[f].pc = "done" => frames[f].status \in {"ready", "rejected", "loop_detected"}

\* C4: a Query whose hops contain the receiver returns loop_detected with
\* empty uid and the request's hops, and changes nothing: admission counters,
\* rejection counter, cache, rotation counter; it issues no uid, makes no
\* local query and no forward call.
C4_LoopDetectedNoEffect ==
  [][ Arrived =>
        LET nf == frames'[Len(frames')] IN
        InSeq(nf.proc, nf.reqHops) =>
          /\ nf.status = "loop_detected" /\ nf.pc = "done"
          /\ nf.respUid = NoUid /\ nf.totalChunks = 0 /\ nf.totalRecords = 0
          /\ nf.respHops = nf.reqHops
          /\ nf.agg = <<>> /\ nf.targets = <<>> /\ nf.records = <<>>
          /\ UNCHANGED << admActive, admPerTeam, rejections, admits, releases,
                          cache, rrIndex, nextUid >>
          /\ \A g \in 1..Len(frames') : frames'[g].parent # Len(frames') ]_vars

\* a forward Query came back around to a process already in its hops
C4_Witness ==
  \E f \in Frames :
    /\ frames[f].status = "loop_detected"
    /\ frames[f].parent # Client
    /\ frames[f].proc = "B"

\* C5: with duplicate-free client hops, every hops list carried by a forward
\* Query or returned in a response contains each process id at most once.
C5_LoopFreedom ==
  \A f \in Frames :
    /\ NoDup(frames[f].reqHops)
    /\ NoDup(frames[f].hops)
    /\ NoDup(frames[f].respHops)

C5_Witness ==
  \E f \in Frames :
    /\ frames[f].proc = "C" /\ frames[f].status = "ready"
    /\ frames[f].reqHops = <<"A", "B">>
    /\ frames[f].respHops = <<"A", "B", "C">>

\* C6: at every process the active count equals admits - releases and the
\* sum of the per-team counts, no count is negative, under Strict every
\* per-team count is within 0..perTeamLimit, and a running query is charged
\* to filter.team if given and to the process's own team otherwise.
C6_AdmissionAccounting ==
  \A p \in Procs :
    /\ Active(p) = admits[p] - releases[p]
    /\ Active(p) = SumTeams(admPerTeam[p])
    /\ \A t \in TeamKeys :
         /\ admPerTeam[p][t] >= 0
         /\ admPerTeam[p][t] = Cardinality({u \in DOMAIN admActive[p] : admActive[p][u] = t})
         /\ fairness = "strict" => admPerTeam[p][t] <= PerTeamLimit
    /\ \A f \in Frames :
         (frames[f].proc = p /\ frames[f].pc # "done") =>
           /\ frames[f].uid \in DOMAIN admActive[p]
           /\ admActive[p][frames[f].uid] =
                Lower(IF frames[f].reqTeam # NoTeam THEN frames[f].reqTeam
                      ELSE Config[p].team)

C6_Witness ==
  /\ fairness = "strict"
  /\ Active("C") = 2
  /\ admPerTeam["C"]["green"] = 1 /\ admPerTeam["C"]["pink"] = 1
  /\ rejections["C"] >= 1 /\ releases["C"] >= 1

\* C7: every admitted query releases its slot exactly once when
\* execute_query exits, with a response or with an exception; a process with
\* no Query in flight has active count 0 and all per-team counts 0.
C7_ReleaseOnExit ==
  \A p \in Procs :
    /\ \A f \in Frames :
         frames[f].proc = p =>
           /\ frames[f].pc = "done" => frames[f].uid \notin DOMAIN admActive[p]
           /\ frames[f].status \in {"ready", "rpc_error"} => frames[f].released = 1
           /\ frames[f].status \in {"rejected", "loop_detected"} => frames[f].released = 0
           /\ frames[f].pc # "done" =>
                frames[f].released = 0 /\ frames[f].uid \in DOMAIN admActive[p]
    /\ {f \in Frames : frames[f].proc = p /\ frames[f].pc # "done"} = {} =>
         /\ Active(p) = 0
         /\ \A t \in TeamKeys : admPerTeam[p][t] = 0
         /\ admits[p] = releases[p]

C7_Witness ==
  \E f \in Frames :
    /\ frames[f].status = "rpc_error"
    /\ Active(frames[f].proc) = 0
    /\ admits[frames[f].proc] >= 1
    /\ InFlight = {}

\* C8: under Strict, Weighted and Hybrid fairness the total active count of
\* a process never exceeds maxActive, however many Query RPCs run at once.
C8_NeverOverMaxActive ==
  \A p \in Procs :
    /\ Active(p) <= MaxActive
    /\ SumTeams(admPerTeam[p]) <= MaxActive

C8_Witness ==
  /\ fairness = "hybrid"
  /\ Active("C") = MaxActive
  /\ Cardinality({f \in Frames : frames[f].proc = "C" /\ frames[f].pc # "done"}) = MaxActive
  /\ \E f \in Frames : frames[f].proc = "C" /\ frames[f].status = "rejected"

\* C9: a refused query returns rejected with empty uid and does no work: no
\* local query, no forward call, no cache entry, no change of the active
\* counters or the rotation counter; the rejection counter grows by one; the
\* caller moves on without retrying; the queries in flight are untouched.
\* A query arriving while maxActive queries are active is refused.
C9_RejectedNoWork ==
  [][ Arrived =>
        LET nf == frames'[Len(frames')]
            p == nf.proc
            refused == /\ ~InSeq(p, nf.reqHops)
                       /\ ~ShouldAdmit(fairness, TargetTeam(p, nf.reqTeam), admPerTeam[p])
        IN /\ (~InSeq(p, nf.reqHops) /\ Active(p) >= MaxActive) => refused
           /\ nf.status = "rejected" <=> refused
           /\ refused =>
                /\ nf.status = "rejected" /\ nf.pc = "done"
                /\ nf.respUid = NoUid /\ nf.totalChunks = 0 /\ nf.totalRecords = 0
                /\ nf.agg = <<>> /\ nf.targets = <<>> /\ nf.records = <<>>
                /\ nf.uid \notin DOMAIN cache'[p]
                /\ UNCHANGED << admActive, admPerTeam, admits, releases, cache, rrIndex >>
                /\ rejections' = [rejections EXCEPT ![p] = @ + 1]
                /\ \A g \in 1..Len(frames') : frames'[g].parent # Len(frames')
                /\ nf.parent # Client =>
                     LET before == frames[nf.parent]
                         after == frames'[nf.parent]
                     IN /\ after.agg = before.agg
                        /\ after.pc \in {"forward", "finish"}
                        /\ after.pc = "forward" => after.k = before.k + 1
                        /\ after.pc = "finish" => before.k = Len(before.targets)
                        /\ \A g \in Frames : g # nf.parent => frames'[g] = frames[g]
           /\ nf.parent # Client =>
                \A g \in Frames :
                  ~(frames[g].parent = nf.parent /\ frames[g].proc = p) ]_vars

\* C forwarded by B was refused because of the queries running at C; B did
\* not retry and returned ready, and the queries that ran at C returned ready
C9_Witness ==
  \E f, g, h \in Frames :
    /\ frames[g].status = "rejected" /\ frames[g].parent = f
    /\ frames[f].status = "ready"
    /\ Cardinality({c \in ChildrenOf(f) : frames[c].proc = frames[g].proc}) = 1
    /\ frames[h].proc = frames[g].proc /\ frames[h].uid < frames[g].uid
    /\ frames[h].status = "ready"
    /\ rejections[frames[g].proc] = 1

\* C10: once GetChunk has returned a chunk with is_last = true, the entry of
\* that uid is gone and every GetChunk for it, at any index, is not_found.
C10_DeletedAfterLastChunk ==
  /\ \A e \in delivered :
       /\ e[2] \notin DOMAIN cache[e[1]]
       /\ \A i \in ChunkIndexes :
            GetChunkResponse(cache[e[1]], e[2], i).status = "not_found"
  /\ lastChunk.status = "success" /\ lastChunk.is_last =>
       << lastChunk.proc, lastChunk.uid >> \in delivered
  /\ (lastChunk.status # "none" /\ << lastChunk.proc, lastChunk.uid >> \in delivered) =>
       \/ lastChunk.status = "not_found"
       \/ lastChunk.status = "success" /\ lastChunk.is_last

\* a client pulled again after the last chunk and got not_found
C10_Witness ==
  /\ lastChunk.status = "not_found"
  /\ << lastChunk.proc, lastChunk.uid >> \in delivered

\* The ready replies of Query RPCs: process, uid, totalChunks, totalRecords.
ReadyReplies ==
  { [proc |-> frames[f].proc, uid |-> frames[f].respUid,
     n |-> frames[f].totalChunks, records |-> frames[f].totalRecords] :
      f \in {g \in Frames : frames[g].status = "ready"} }

AllServed(r) ==
  \A i \in 0..(r.n - 1) :
    LET resp == GetChunkResponse(cache[r.proc], r.uid, i) IN
    resp.status = "success" /\ resp.total_chunks = r.n

\* C11 as stated: a ready uid with n >= 1 chunks serves every index 0..n-1
\* as long as not every chunk has been pulled (no time passes here, so the
\* TTL has not elapsed).
C11_ValidUntilAllPulled ==
  \A r \in ReadyReplies :
    (r.n >= 1 /\ \E i \in 0..(r.n - 1) : <<r.proc, r.uid, i>> \notin pulled)
      => AllServed(r)

\* C11 (amended): a ready reply carries the totalChunks and totalRecords of
\* the cached result, and for a ready uid with n >= 1 chunks every
\* GetChunk(uid, i) with 0 <= i < n returns success with totalChunks = n, in
\* whatever order the indexes are pulled, as long as the last chunk (index
\* n - 1) has not been pulled.
C11_ValidUntilLastPulled ==
  \A r \in ReadyReplies :
    /\ r.uid \in DOMAIN cache[r.proc] =>
         LET e == cache[r.proc][r.uid] IN
         /\ r.n = TotalChunks(e.records, e.chunk_size)
         /\ r.records = Len(e.records)
    /\ (r.n >= 1 /\ <<r.proc, r.uid, r.n - 1>> \notin pulled) =>
         /\ r.uid \in DOMAIN cache[r.proc]
         /\ AllServed(r)
    /\ (r.n >= 1 /\ <<r.proc, r.uid, r.n - 1>> \in pulled) =>
         r.uid \notin DOMAIN cache[r.proc]

\* chunk 0 of a two-chunk result was pulled and the uid still serves both
C11_Witness ==
  \E r \in ReadyReplies :
    /\ r.n = 2
    /\ <<r.proc, r.uid, 0>> \in pulled
    /\ lastChunk.status = "success" /\ lastChunk.uid = r.uid
    /\ lastChunk.chunk_index = 0
    /\ AllServed(r)

\* C12: GetChunk always answers with a status: not_found for a uid that is
\* unknown, deleted or expired; out_of_range with empty data for a cached
\* uid and an index < 0 or >= totalChunks (index 0 of an empty result
\* included); in both cases the cache is left as it was.
C12_GetChunkErrors ==
  /\ \A p \in Procs : \A uid \in 1..(nextUid + 1) : \A i \in CacheIndexes :
       LET c == cache[p]
           resp == GetChunkResponse(c, uid, i)
           live == uid \in DOMAIN c /\ ~Expired(c[uid])
           total == TotalChunks(c[uid].records, c[uid].chunk_size)
       IN /\ resp.status \in {"success", "not_found", "out_of_range"}
          /\ ~live => /\ resp.status = "not_found"
                      /\ SafeJsonLoads(resp.data) = <<>>
                      /\ GetChunkCache(c, uid, i) = c
          /\ live =>
               /\ (i < 0 \/ i >= total) <=> resp.status = "out_of_range"
               /\ resp.status = "out_of_range" =>
                    /\ SafeJsonLoads(resp.data) = <<>>
                    /\ resp.total_chunks = total
                    /\ GetChunkCache(c, uid, i) = c
               /\ resp.status # "not_found"
  /\ lastChunk.status \in {"not_found", "out_of_range"} => lastChunk.data = <<>>
  /\ lastChunk.status = "out_of_range" =>
       <<lastChunk.proc, lastChunk.uid, lastChunk.chunk_index>> \notin pulled

\* index 0 of an empty cached result was asked for: out_of_range, and the
\* result is still cached
C12_Witness ==
  /\ lastChunk.status = "out_of_range"
  /\ lastChunk.chunk_index = 0 /\ lastChunk.total_chunks = 0
  /\ lastChunk.uid \in DOMAIN cache[lastChunk.proc]
  /\ cache[lastChunk.proc][lastChunk.uid].records = <<>>
  /\ \E u \in DOMAIN cache[lastChunk.proc] : Expired(cache[lastChunk.proc][u])

\* C13: a GetChunk that returns a chunk other than the last leaves the cache
\* as it was; in every step (chunk pulls of any index and uid, steps of
\* other Query executions on the process) a result that stays cached keeps
\* its rows and its chunk size and answers every index as before; and a
\* result leaves the cache only by the pull of its last chunk.
C13_PureRead ==
  [][ /\ (lastChunk' # lastChunk /\ lastChunk'.status = "success"
          /\ ~lastChunk'.is_last) => cache' = cache
      /\ \A p \in Procs : \A uid \in DOMAIN cache[p] :
           IF uid \in DOMAIN cache'[p]
           THEN /\ cache'[p][uid].records = cache[p][uid].records
                /\ cache'[p][uid].chunk_size = cache[p][uid].chunk_size
                /\ \A i \in CacheIndexes :
                     GetChunkResponse(cache'[p], uid, i) = GetChunkResponse(cache[p], uid, i)
           ELSE /\ lastChunk'.status = "success" /\ lastChunk'.is_last
                /\ lastChunk'.proc = p /\ lastChunk'.uid = uid ]_vars

\* chunk 0 of a two-chunk result was pulled while another query ran and
\* stored its result on the same process; the first result is intact
C13_Witness ==
  /\ <<"C", 1, 0>> \in pulled
  /\ 1 \in DOMAIN cache["C"]
  /\ TotalChunks(cache["C"][1].records, cache["C"][1].chunk_size) = 2
  /\ lastChunk.status = "success" /\ lastChunk.uid = 1 /\ lastChunk.chunk_index = 0
  /\ lastChunk.data = SubSeq(cache["C"][1].records, 1, cache["C"][1].chunk_size)
  /\ \E u \in DOMAIN cache["C"] : u # 1

ExpectedTargets(p) ==
  LET nbrs == {Config[p].neighbors[i] : i \in 1..Len(Config[p].neighbors)} IN
  IF Config[p].role = "leader"
  THEN {n \in nbrs : Config[n].role = "team_leader"}
  ELSE IF Config[p].role = "team_leader"
  THEN {n \in nbrs : Config[n].role = "worker" /\ Config[n].team = Config[p].team}
  ELSE {}

SumSeq(a) ==
  LET RECURSIVE Sum(_)
      Sum(i) == IF i = 0 THEN 0 ELSE a[i] + Sum(i - 1)
  IN Sum(Len(a))

\* C16: for n >= 1 neighbors and limit L >= 1 the allocation has n entries,
\* entry i being base = max(1, floor(L/n)) plus one for each of the
\* L - base*n increments that lands on it going round from the first
\* neighbor; every entry is >= 1, two entries differ by at most 1, and the
\* entries sum to L whenever L >= n; n <= 0 gives the empty allocation.
C16_LimitAllocation ==
  \A f \in Frames :
    frames[f].pc = "allocated" =>
      LET n == frames[f].neighbor_count
          L == frames[f].total_limit
          a == frames[f].allocs
          base == Max(1, L \div n)
          remainder == L - base * n
      IN /\ n <= 0 => a = <<>>
         /\ (n >= 1 /\ L >= 1) =>
              /\ Len(a) = n
              /\ \A i \in 1..n :
                   /\ a[i] = base + Cardinality({k \in 0..(remainder - 1) : k % n = i - 1})
                   /\ a[i] >= 1
                   /\ \A j \in 1..n : a[i] - a[j] <= 1
              /\ L >= n => SumSeq(a) = L
              /\ (L >= n /\ L % n = 0) => \A i \in 1..n : a[i] = L \div n

\* 10 over 4 neighbors: 3, 3, 2, 2
C16_Witness ==
  \E f \in Frames :
    /\ frames[f].pc = "allocated"
    /\ frames[f].neighbor_count = 4 /\ frames[f].total_limit = 10
    /\ frames[f].allocs = <<3, 3, 2, 2>>

\* C17: no forward Query is sent to a neighbor whose id is already in the
\* hops of the request being processed.
C17_CycleGuard ==
  \A f \in Frames :
    frames[f].parent # Client => ~InSeq(frames[f].proc, frames[f].reqHops)

\* C18: forward_blocking and forward_async of both strategies return at
\* most `remaining` rows, whatever the interleaving of the neighbor threads
\* and whatever each neighbor returns up to the limit it was given.
C18_AtMostRemaining ==
  \A f \in Frames :
    /\ frames[f].pc = "returned" => Len(frames[f].result) <= frames[f].remaining
    /\ frames[f].pc = "returned" =>
         frames[f].result = Take(frames[f].aggregated, Len(frames[f].result))
    /\ ~FwdIsAsync(frames[f].mode) => Len(frames[f].aggregated) <= frames[f].remaining

\* two threads read the same remaining before either subtracted, together
\* they collected more rows than remaining, and the call returned remaining
C18_Witness ==
  \E f \in Frames :
    /\ frames[f].pc = "returned" /\ frames[f].mode = "par_async"
    /\ Len(frames[f].aggregated) > frames[f].remaining
    /\ Len(frames[f].result) = frames[f].remaining
    /\ frames[f].remaining_count < 0

\* the limit the claim gives a filter: default_limit without a limit, else
\* the supplied integer clamped into [1, default_limit]
ClampedLimit(raw) ==
  IF raw = NoLimit THEN DefaultLimit ELSE Max(1, Min(raw[1], DefaultLimit))

\* C19: the effective limit of a query is default_limit when the filter has
\* no limit and otherwise the supplied integer clamped into
\* [1, default_limit] (0 and negatives become 1); the limit forwarded to a
\* neighbor is always >= 1.
C19_LimitClamped ==
  \A f \in Frames :
    /\ frames[f].parent = Client /\ Len(frames[f].rawLimit) <= 1 =>
         frames[f].limit = ClampedLimit(frames[f].rawLimit)
    /\ frames[f].parent # Client =>
         Len(frames[f].rawLimit) = 1 /\ frames[f].rawLimit[1] >= 1

\* C20: a Query whose query_params is not JSON, is not a JSON object, or
\* carries a limit that is no integer returns status invalid_query with an
\* empty uid, takes no admission, caches nothing and forwards nothing; it
\* never ends in an RPC-level error.
C20_InvalidQueryStructured ==
  \A f \in Frames :
    Len(frames[f].rawLimit) = 2 =>
      /\ frames[f].pc = "done"
      /\ frames[f].status = "invalid_query"
      /\ frames[f].uid = NoUid /\ frames[f].respUid = NoUid
      /\ frames[f].released = 0
      /\ ChildrenOf(f) = {}

\* C21: a local data store that raises counts as zero local rows: the
\* admitted query goes on with its fan-out and returns ready with the rows
\* of its neighbors; the error never ends the Query as an RPC-level error.
C21_LocalFailureAbsorbed ==
  \A f \in Frames :
    (frames[f].pc = "done" /\ frames[f].uid # NoUid
       /\ frames[f].status # "rejected"
       /\ LocalQueryRaises(frames[f].proc, frames[f].rawLimit)) =>
      frames[f].status = "ready"

\* C22: two identical Query calls, one after the other, to the same process
\* over a stable datasource get two distinct uids and equal totalRecords,
\* for every limit, number of neighbors and distribution of the rows.
C22_RepeatEqual ==
  \A f \in Frames :
    Len(frames[f].totals) = 2 =>
      /\ frames[f].uids[1] # frames[f].uids[2]
      /\ frames[f].totals[1] = frames[f].totals[2]

\* the active count of the request's team and of the other teams
TeamActive(fr) ==
  IF fr.team = NoTeam THEN 0 ELSE fr.active_per_team[Lower(fr.team)]

OtherActive(fr) == SumTeams(fr.active_per_team) - TeamActive(fr)

\* C23: Weighted rejects when total active >= maxActive; otherwise a team
\* whose active count has reached perTeamLimit is admitted exactly when the
\* other teams' active counts sum to less than 0.8 * perTeamLimit.
C23_WeightedLoan ==
  \A f \in Frames :
    frames[f].pc = "decided" =>
      (frames[f].weighted <=>
         /\ SumTeams(frames[f].active_per_team) < frames[f].max_active
         /\ \/ frames[f].team = NoTeam
            \/ TeamActive(frames[f]) < frames[f].per_team_limit
            \/ 10 * OtherActive(frames[f]) < 8 * frames[f].per_team_limit)

\* C24: Hybrid decides as Strict when total active >= 0.8 * maxActive and as
\* Weighted otherwise, with load 0 for maxActive = 0.
C24_HybridSwitch ==
  \A f \in Frames :
    frames[f].pc = "decided" =>
      LET total == SumTeams(frames[f].active_per_team)
          load_high == frames[f].max_active > 0
                       /\ 5 * total >= 4 * frames[f].max_active
      IN frames[f].hybrid = IF load_high THEN frames[f].strict
                            ELSE frames[f].weighted

\* high load with a team at its limit while the others are low: Strict and
\* Weighted disagree and Hybrid follows Strict; and the same teams under low
\* load, where Hybrid follows Weighted, is covered by C24_HybridSwitch
C24_Witness ==
  \E f \in Frames :
    /\ frames[f].pc = "decided"
    /\ 5 * SumTeams(frames[f].active_per_team) >= 4 * frames[f].max_active
    /\ frames[f].weighted /\ ~frames[f].strict /\ ~frames[f].hybrid

\* C25: a metrics response reports isHealthy exactly when the rejection
\* counter of the process is 0 and activeRequests equal to the number of
\* admitted, not yet released queries; the rejection counter never
\* decreases, so after an unhealthy response of a process no healthy one
\* follows.
C25_Metrics ==
  [][ /\ \A p \in Procs : rejections'[p] >= rejections[p]
      /\ lastMetrics' # lastMetrics =>
           LET p == lastMetrics'.process_id IN
           /\ lastMetrics'.is_healthy <=> (rejections'[p] = 0)
           /\ lastMetrics'.active_requests = admits'[p] - releases'[p]
           /\ lastMetrics'.active_requests =
                Cardinality({f \in Frames : /\ frames[f].proc = p
                                             /\ frames[f].uid # NoUid
                                             /\ frames[f].status # "rejected"
                                             /\ frames[f].released = 0})
           /\ (lastMetrics # NoMetrics /\ ~lastMetrics.is_healthy)
                => ~lastMetrics'.is_healthy ]_vars

\* a response taken after a rejection while one admitted query is running
C25_Witness ==
  /\ lastMetrics # NoMetrics
  /\ ~lastMetrics.is_healthy
  /\ lastMetrics.active_requests = 1
  /\ rejections[lastMetrics.process_id] = 1
  /\ \E f \in Frames : frames[f].status = "ready"

Rotated(fr) == {i \in DOMAIN fr.threads : fr.threads[i].order # <<>>}

\* C27: the k queries that have selected a non-empty forward set, successive
\* or concurrent, have read the k distinct consecutive counter values
\* 0..k-1 and the counter is k; each visits the selected list rotated by its
\* value mod n; queries with consecutive values over n >= 2 neighbors begin
\* with different neighbors; a query that selects nothing or is full
\* locally leaves the counter alone.
C27_Rotation ==
  \A f \in Frames :
    LET fr == frames[f]
        done == Rotated(fr)
        busy == {i \in DOMAIN fr.threads : fr.threads[i].pc = "write"}
    IN /\ {fr.threads[i].read : i \in done} = 0..(Cardinality(done) - 1)
       /\ \A i, j \in done : i # j => fr.threads[i].read # fr.threads[j].read
       /\ fr.rr_index = Cardinality(done)
       /\ Cardinality(busy) <= 1
       /\ \A i \in done :
            /\ Len(fr.threads[i].order) = fr.n
            /\ \A j \in 1..fr.n :
                 fr.threads[i].order[j] = ((fr.threads[i].read + j - 1) % fr.n) + 1
       /\ \A i, j \in done :
            (fr.n >= 2 /\ fr.threads[j].read = fr.threads[i].read + 1) =>
              fr.threads[i].order[1] # fr.threads[j].order[1]
       /\ \A i \in DOMAIN fr.threads :
            (fr.threads[i].pc = "done" /\ i \notin done) => fr.threads[i].read = -1

\* three queries over two neighbors: two have rotated and advanced the
\* counter to 2, the third was full locally and never read it
C27_Witness ==
  \E f \in Frames :
    /\ frames[f].n = 2
    /\ frames[f].rr_index = 2
    /\ Cardinality(Rotated(frames[f])) = 2
    /\ \E i \in DOMAIN frames[f].threads :
         frames[f].threads[i].pc = "done" /\ frames[f].threads[i].read = -1

\* leader > team_leader > worker
RoleRank(p) ==
  IF Config[p].role = "leader" THEN 3
  ELSE IF Config[p].role = "team_leader" THEN 2 ELSE 1

\* the Query RPCs one client query can cause: itself and one per process
\* below it
QueryFrames == 1..Cardinality(Procs)

\* C28: every Query terminates: forward calls only descend from leader to
\* team leader to worker, whatever the neighbor graph and the hops, and
\* every admitted query eventually stores its result, returns ready and has
\* released its admission slot, provided every outbound RPC returns or
\* fails.
C28_Terminates ==
  /\ [](\A f \in Frames :
          frames[f].parent # Client =>
            RoleRank(frames[f].proc) < RoleRank(frames[frames[f].parent].proc))
  /\ \A f \in QueryFrames :
       (f \in Frames /\ frames[f].pc = "admitted")
         ~> (f \in Frames /\ frames[f].status = "ready"
             /\ frames[f].released = 1
             /\ frames[f].uid \notin DOMAIN admActive[frames[f].proc])

\* the indexes of the chunks of C's result 1 pulled so far
PulledOf == {i \in 0..MaxRecords : <<"C", 1, i>> \in pulled}

\* C29: the forwarder requests the chunks 0, 1, 2, ... of a ready reply in
\* order, without gaps or repeats, appends the rows in order and requests
\* nothing once it holds its limit or has received is_last; when every pull
\* succeeds it ends with the first min(limit, totalRecords) rows, and a
\* reply that is no success ends the drain with the rows collected so far.
C29_DrainInOrder ==
  /\ [](LET fr == frames[1]
            recs == frames[2].records
            L == fr.allocs[1]
        IN /\ fr.pc = "drain" =>
                /\ PulledOf = 0..(fr.rIdx - 1)
                /\ fr.rIdx < fr.rChunks
                /\ <<"C", 1>> \notin delivered
                /\ fr.rRemaining > 0
                /\ Len(fr.collected) = L - fr.rRemaining
                /\ fr.collected = Take(recs, Len(fr.collected))
           /\ fr.pc \in {"finish", "done"} => Cardinality(PulledOf) <= L)
  /\ [][ LET fr == frames[1]
             recs == frames[2].records
             L == fr.allocs[1]
             resp == GetChunkResponse(cache["C"], 1, fr.rIdx)
         IN fr.pc = "drain" =>
             /\ resp.status = "success" => PulledOf' = PulledOf \cup {fr.rIdx}
             /\ resp.status # "success" =>
                  /\ frames'[1].pc = "finish"
                  /\ frames'[1].agg = fr.collected
                  /\ pulled' = pulled
             /\ (resp.status = "success" /\ frames'[1].pc = "drain") =>
                  /\ frames'[1].rIdx = fr.rIdx + 1
                  /\ frames'[1].collected = fr.collected \o SafeJsonLoads(resp.data)
                  /\ ~resp.is_last
             /\ (resp.status = "success" /\ frames'[1].pc # "drain") =>
                  /\ frames'[1].agg = Take(recs, Min(L, Len(recs)))
                  /\ resp.is_last \/ Len(frames'[1].agg) = L
     ]_<<frames, pulled>>

\* the drain stopped at its limit in front of the last chunk, which stays
\* in the neighbor's cache
C29_Witness ==
  /\ frames[1].pc = "finish"
  /\ Len(frames[1].agg) = 3 /\ frames[1].allocs[1] = 3
  /\ PulledOf = {0, 1, 2}
  /\ Len(frames[2].records) = 4
  /\ <<"C", 1>> \notin delivered

\* the forwarder has finished handling the reply of its neighbor
ReplyHandled == frames[1].pc \in {"forward", "finish", "done"}

\* C30 as stated: when a forwarder has finished handling a neighbor's ready
\* reply without an RPC failure, the neighbor's cache holds no entry for the
\* uid of that reply, for every result size including the empty result.
C30_NoLeakedResult ==
  ReplyHandled => 1 \notin DOMAIN cache["C"]

\* C30 amended: the same for every non-empty result; an empty result
\* (totalChunks = 0) is never pulled and stays in the neighbor's cache.
C30_NoLeakedNonEmptyResult ==
  /\ (ReplyHandled /\ frames[2].totalRecords > 0) =>
       /\ 1 \notin DOMAIN cache["C"]
       /\ <<"C", 1>> \in delivered
  /\ (ReplyHandled /\ frames[2].totalRecords = 0) =>
       /\ 1 \in DOMAIN cache["C"]
       /\ pulled = {}

\* a result of three chunks drained down to its last chunk
C30_Witness ==
  /\ ReplyHandled
  /\ frames[2].totalChunks = 3
  /\ Len(frames[1].agg) = Len(frames[2].records)
  /\ 1 \notin DOMAIN cache["C"]

C32_ForwardQueryContents ==
  \A g \in Frames :
    frames[g].parent # Client =>
      LET c == frames[g]
          par == frames[c.parent]
          j == CHOOSE i \in 1..Len(par.targets) : par.targets[i] = c.proc
      IN /\ Config[par.proc].role \in {"leader", "team_leader"}
         /\ \E i \in 1..Len(par.targets) : par.targets[i] = c.proc
         /\ c.reqHops = par.reqHops \o <<par.proc>>
         /\ Len(c.rawLimit) >= 1
         /\ c.rawLimit[1] = Max(1, par.allocs[j])
         /\ c.reqTeam = Config[c.proc].team
         /\ c.uid \in DOMAIN admActive[c.proc]
              => admActive[c.proc][c.uid] = Lower(Config[c.proc].team)

\* The leader serves a query whose client named team Pink and has forwarded
\* it to the green team leader B, which is charging its green bucket.
C32_Witness ==
  \E g \in Frames :
    /\ frames[g].parent # Client
    /\ frames[g].proc = "B"
    /\ frames[frames[g].parent].proc = "A"
    /\ frames[frames[g].parent].reqTeam = "Pink"
    /\ frames[g].reqTeam = "green"
    /\ frames[g].uid \in DOMAIN admActive["B"]
    /\ admActive["B"][frames[g].uid] = "green"

\* C33: the hops returned by a Query that passes the loop check are the
\* hops of the request followed by the receiver's own id, whether the
\* status is ready, rejected or invalid_query; ids of the processes the
\* query was forwarded to are not added.
C33_ResponseHops ==
  \A f \in Frames :
    (frames[f].pc = "done"
       /\ frames[f].status \in {"ready", "rejected", "invalid_query"})
      => /\ frames[f].respHops = frames[f].reqHops \o <<frames[f].proc>>
         /\ \A g \in ChildrenOf(f) : ~InSeq(frames[g].proc, frames[f].respHops)

\* E, asked with hops [A], has answered ready with hops [A, E] after its
\* worker D delivered rows, and has refused a second query with hops [A, E].
C33_Witness ==
  \E f, g \in Frames :
    /\ frames[f].proc = "E" /\ frames[f].status = "ready"
    /\ frames[f].reqHops = <<"A">> /\ frames[f].respHops = <<"A", "E">>
    /\ \E d \in ChildrenOf(f) : frames[d].proc = "D" /\ frames[d].status = "ready"
    /\ InSeq(41, frames[f].records)
    /\ frames[g].proc = "E" /\ frames[g].status = "rejected"
    /\ frames[g].respHops = <<"A", "E">>

\* The frames of the forward calls of frame f, in the order they were made.
RECURSIVE ChildSeq(_, _)
ChildSeq(f, g) ==
  IF g > Len(frames) THEN <<>>
  ELSE (IF frames[g].parent = f THEN <<g>> ELSE <<>>) \o ChildSeq(f, g + 1)

\* Every concatenation of one leading part of the result of each frame of cs.
RECURSIVE BlockConcats(_)
BlockConcats(cs) ==
  IF cs = <<>> THEN { <<>> }
  ELSE { Take(frames[Head(cs)].records, n) \o r :
           n \in 0..Len(frames[Head(cs)].records), r \in BlockConcats(Tail(cs)) }

\* The first rows, up to its allocation, of the result of each frame of cs.
RECURSIVE AllocatedBlocks(_, _, _)
AllocatedBlocks(cs, allocs, i) ==
  IF cs = <<>> THEN <<>>
  ELSE Take(frames[Head(cs)].records, Max(1, allocs[i]))
         \o AllocatedBlocks(Tail(cs), allocs, i + 1)

\* C34: the rows of a ready query are the local rows first, then the rows of
\* each neighbor as one contiguous block, the blocks in the order the
\* neighbors were visited (the rotated order), each block in the order of the
\* neighbor's own result; nothing is deduplicated or reordered and the trim
\* to the limit cuts only from the end.  When no RPC failed the neighbors
\* visited are the selected ones and each block is the first rows of that
\* neighbor's result up to its allocation.
C34_AggregationOrder ==
  \A f \in Frames :
    (frames[f].pc = "done" /\ frames[f].status = "ready") =>
      LET fr == frames[f]
          local == LocalRows(fr.proc, fr.limit)
          cs == ChildSeq(f, 1)
      IN /\ \E b \in BlockConcats(cs) : fr.records = Take(local \o b, fr.limit)
         /\ \A i, j \in 1..Len(cs) : i < j =>
              \E a, b \in 1..Len(fr.targets) :
                /\ a < b
                /\ fr.targets[a] = frames[cs[i]].proc
                /\ fr.targets[b] = frames[cs[j]].proc
         /\ failures = 0 =>
              /\ cs # <<>> => [i \in 1..Len(cs) |-> frames[cs[i]].proc] = fr.targets
              /\ fr.records =
                   Take(local \o AllocatedBlocks(cs, fr.allocs, 1), fr.limit)

\* The leader, rotated to visit E before B, has answered with the rows of
\* E's result followed by the rows of B's result.
C34_Witness ==
  \E f \in Frames :
    /\ frames[f].proc = "A" /\ frames[f].status = "ready"
    /\ frames[f].targets = <<"E", "B">>
    /\ Len(frames[f].records) = 3
    /\ frames[f].records[1] = 31
    /\ frames[f].records[3] = 11

\* C35: blocking forwarding calls the neighbors one at a time, in the
\* rotated order (round robin) or the given order, skipping those in hops;
\* each call is passed the remaining limit of that moment (the initial one
\* minus the rows aggregated so far); no call is made once the remaining
\* limit is <= 0; a call that raises contributes no rows, and the loop goes
\* on to the later neighbors: it returns only when the remaining limit is
\* used up or every neighbor outside hops has been called.
C35_BlockingOneAtATime ==
  [][ \A f \in DOMAIN frames' :
        LET fr == frames[f]
            nx == frames'[f]
            start == (IF fr.pc \in {"start", "rotate"} THEN fr.index
                      ELSE fr.index - 1)
                       % Len(fr.neighbors)
            order == IF FwdIsRoundRobin(fr.mode)
                     THEN SubSeq(fr.neighbors, start + 1, Len(fr.neighbors))
                            \o SubSeq(fr.neighbors, 1, start)
                     ELSE fr.neighbors
            valid == NotInHops(order, fr.hops)
            n == Len(nx.called)
        IN ~FwdIsAsync(fr.mode) =>
             /\ n <= Len(valid) /\ nx.called = SubSeq(valid, 1, n)
             /\ n <= Len(fr.called) + 1
             /\ n = Len(fr.called) + 1 =>
                  /\ fr.remaining_count > 0
                  /\ nx.passed[n][1] = fr.remaining - Len(fr.aggregated)
                  /\ nx.passed[n][2] <= nx.passed[n][1]
                  /\ nx.passed[n][2] < 0 => nx.aggregated = fr.aggregated
                  /\ nx.passed[n][2] >= 0 =>
                       nx.aggregated =
                         fr.aggregated \o FwdRows(valid[n], nx.passed[n][2])
             /\ n = Len(fr.called) => nx.aggregated = fr.aggregated
             /\ nx.pc = "returned" =>
                  /\ nx.result = nx.aggregated
                  /\ nx.remaining - Len(nx.aggregated) <= 0 \/ nx.called = valid
    ]_vars

\* Round robin, rotated by one: the call to C raised, D was then asked for
\* the same 2 rows and returned 1, and B was asked for the 1 row left.
C35_Witness ==
  /\ frames[1].mode = "rr_blocking"
  /\ frames[1].pc = "returned"
  /\ frames[1].called = <<"C", "D", "B">>
  /\ frames[1].passed = << <<2, -1>>, <<2, 1>>, <<1, 1>> >>
  /\ frames[1].result = << <<"D", 1>>, <<"B", 1>> >>

\* Thread i of the fan-out has been started and has not ended.
FanoutRunning(i) ==
  /\ i \in DOMAIN frames[1].threads
  /\ frames[1].threads[i].pc \notin {"idle", "done"}

\* Thread i of the fan-out has ended.
FanoutEnded(i) ==
  /\ i \in DOMAIN frames[1].threads
  /\ frames[1].threads[i].pc = "done"

\* No lock is held by a thread whose neighbor call is in progress, a thread
\* that waits for results_lock does not hold remaining_lock, and the
\* rotation lock is held only between the entry of the call and the
\* increment of the counter, before any thread is started.
FanoutLocksReleased ==
  LET fr == frames[1] IN
  /\ \A i \in DOMAIN fr.threads :
       /\ fr.threads[i].pc = "call"
            => /\ fr.results_lock # i
               /\ fr.remaining_lock # i
               /\ fr.rot_lock = 0
       /\ fr.threads[i].pc = "lock" => fr.remaining_lock # i
       /\ fr.threads[i].pc # "idle" => fr.rot_lock = 0
  /\ fr.rot_lock # 0 => fr.pc = "rotate" /\ fr.called = <<>>

\* C36: the parallel fan-out never holds a lock across a neighbor call and
\* cannot deadlock: while a call is in progress its thread holds neither
\* remaining_lock nor results_lock; remaining_lock is only ever taken alone
\* or inside results_lock, never the other way round; the rotation lock is
\* held only for the read-and-increment of the counter; every started
\* thread ends after its call has returned or raised, and the join and the
\* call of forward_async return.
C36_FanoutDeadlockFree ==
  /\ []FanoutLocksReleased
  /\ [][ \A i \in DOMAIN frames[1].threads :
           /\ (frames'[1].results_lock = i /\ frames[1].results_lock # i)
                => frames[1].remaining_lock # i
           /\ (frames'[1].remaining_lock = i /\ frames[1].remaining_lock # i)
                => frames[1].threads[i].pc \in {"read", "subtract"}
    ]_vars
  /\ \A i \in 1..Len(FwdNeighbors) :
       FanoutRunning(i) ~> FanoutEnded(i)
  /\ <>(frames[1].pc = "returned")

\* Asynchronous round robin: one thread is inside its neighbor call while
\* another holds results_lock and remaining_lock, and a third waits for
\* results_lock.
C36_Witness ==
  LET fr == frames[1] IN
  /\ fr.mode = "rr_async"
  /\ Len(fr.threads) = 3
  /\ \E i, j, k \in DOMAIN fr.threads :
       /\ fr.threads[i].pc = "call"
       /\ fr.threads[j].pc = "subtracting"
       /\ fr.results_lock = j /\ fr.remaining_lock = j
       /\ fr.threads[k].pc = "lock"

\* C37: the chunk size computed for a ChunkedResult is a positive integer
\* for every chunking strategy and every result size >= 0, the empty result
\* included; Fixed returns the configured size; Adaptive returns
\* min(50, total) up to 100 rows, base up to 500, min(2*base, max) up to
\* 2000 and max beyond.
C37_ChunkSizePositive ==
  \A f \in Frames :
    frames[f].pc = "chunked" =>
      LET fr == frames[f]
          total == fr.total_records
          size == fr.dynamic_chunk_size
      IN /\ size \in Nat /\ size > 0
         /\ fr.strategy = "fixed" => size = fr.base_size
         /\ fr.strategy = "adaptive" =>
              /\ total <= 100 => size = Min(50, total)
              /\ (total > 100 /\ total <= 500) => size = fr.base_size
              /\ (total > 500 /\ total <= 2000) =>
                   size = Min(2 * fr.base_size, AdaptiveMaxSize)
              /\ total > 2000 => size = AdaptiveMaxSize

\* The record satisfies every predicate that is present (and not empty) in
\* the filters.
Satisfies(r, filters) ==
  /\ \A p \in filters.parameter :
       p # "" => LowerParameter(r.parameter) = LowerParameter(p)
  /\ \A v \in filters.min_value : v <= r.value
  /\ \A v \in filters.max_value : r.value <= v
  /\ \A d \in filters.date_start : d # <<>> => ~StrLess(r.date, d)
  /\ \A d \in filters.date_end : d # <<>> => ~StrLess(d, r.date)
  /\ \A v \in filters.lat_min : v <= r.latitude
  /\ \A v \in filters.lat_max : r.latitude <= v
  /\ \A v \in filters.lon_min : v <= r.longitude
  /\ \A v \in filters.lon_max : r.longitude <= v

TeamOf(fr, i) ==
  { j \in 1..Len(fr.members) : fr.members[j].team = fr.members[i].team }

\* C39: for every member list and every number of dates of the team (fewer
\* dates than members included), once the members of a team have loaded,
\* their date sets are pairwise disjoint and their union is exactly the
\* team's dates; the shares are weighted team_leader 1, worker 2 (exactly
\* so when the number of dates is a multiple of the team's weight); and a
\* member whose selected date set is empty, by its share or because its
\* explicit date bounds match no date, loads no data.
C39_TeamPartition ==
  \A f \in Frames :
    LET fr == frames[f]
        T == fr.total_dates
    IN \A i \in fr.started :
         LET team == TeamOf(fr, i)
             roles == [j \in 1..Len(fr.members) |-> fr.members[j].role]
             weight == SumSeq([j \in 1..Len(fr.members) |->
                                 IF j \in team THEN RoleWeight(roles[j]) ELSE 0])
         IN /\ fr.explicit_bounds = None /\ team \subseteq fr.started =>
                 /\ \A j \in team : j # i => fr.loaded[i] \cap fr.loaded[j] = {}
                 /\ UNION { fr.loaded[j] : j \in team } = 1..T
                 /\ T % weight = 0 =>
                      Cardinality(fr.loaded[i])
                        = RoleWeight(roles[i]) * (T \div weight)
            /\ fr.explicit_bounds # None =>
                 fr.loaded[i] = { d \in 1..T :
                                    /\ ValueOf(fr.explicit_bounds)[1] <= d
                                    /\ d <= ValueOf(fr.explicit_bounds)[2] }

====
